---- MODULE Spec2Model ----
(***************************************************************************)
(* PearDrive Core: one node (PearDrive + IndexManager + LocalFileIndex)    *)
(* and the peers it is connected to.  The node's handlers are modelled     *)
(* step by step, one action per stretch of code between two awaits; the    *)
(* peers follow the same protocol code on their side of the wire.          *)
(***************************************************************************)
EXTENDS Integers, Sequences, FiniteSets, TLC

\* ------------------------------------------------------------------ bounds
\* appends to remote logs that one behaviour contains
MaxAppends == 2
\* writes and deletions of files in the watch folder, by the user or by a
\* download, that one behaviour contains
MaxWrites == 2
\* nodes constructed from the save data of a closed node
MaxRestarts == 1
\* calls of close() on one node
MaxCloseCalls == 2
\* swarm connections made to the node
MaxConnects == 2
\* RPC requests received by the node
MaxMsgs == 2
\* sendMessage calls of the user
MaxSends == 2
\* runs of the automatic polling
MaxPolls == 2

\* ------------------------------------------------------------------- sets
Peers == {"q1", "q2"}
\* keys in the order a Hyperbee read/diff stream yields them (sorted)
PathSeq == <<"a", "b">>
Paths == {PathSeq[i] : i \in 1..Len(PathSeq)}
Contents == {1, 2}
\* the peers whose index changes while the node is connected to them; the
\* diff engine keeps its state per peer, so one such peer shows every
\* interleaving of appends and walks
LogPeers == {"q1"}
\* the paths the user writes and the peers ask for
XferPaths == {"a"}

\* the peers that send FILE_REQUEST to the node, and those it downloads from
Requesters == {"q1"}

Sources == {"q2"}
\* what a file holds after a download that did not deliver every byte
Partial == 3

\* SHA-256 of a file's content (LocalFileIndex #hashFile): injective on the
\* contents of the model, and never the value that stands for "no hash"
HashFile(c) == (c * 5 + 3) % 16

Hashes == {HashFile(c) : c \in Contents}

\* a key that is not in a bee: bee.get(key) === null
NoRec == [hash |-> 0, modified |-> 0]

EmptyBee == [p \in Paths |-> NoRec]

\* a path with no file: fs.statSync throws
NoFile == [content |-> 0, modified |-> 0]

VARIABLES
    log,            \* log[q]: the versions of peer q's index bee, oldest first
    nAppends,       \* appends so far (the id of the handler each one starts)
    remoteIndexes,  \* IndexManager.remoteIndexes: peers with a registered bee
    peerUpdates,    \* IndexManager._peerUpdates: last processed version, -1 = no entry
    walkers,        \* the invocations of the "append" handler / #onPeerUpdate
    peerEvents,     \* PEER_FILE_* events emitted so far, per peer and path
    initialUpdate,  \* addBee's initialUpdate: the version a peer was registered at
    fs,             \* the watch folder: path -> [content, modified] or NoFile
    nWrites,        \* writes to the watch folder so far (the clock of mtimes)
    bee,            \* LocalFileIndex #bee: the local index, path -> record
    cache,          \* LocalFileIndex #metadataCache
    debounceTimers, \* LocalFileIndex #debounceTimers: paths with a pending timer
    watch,          \* the #handleFileChange invocation of each path
    pollTask,       \* the #pollAndSync invocation
    inProgress,     \* IndexManager._inProgress: path -> peer -> direction
    uploads,        \* _uploads: paths with an upload container
    downloads,      \* _downloads: paths with a download container
    peer,           \* each peer's request/download/release cycle against the node
    dl,             \* the node's own download call
    closed,         \* PearDrive.close() has run
    emits,          \* the events emitted (and files hashed) by the last step
    opened,         \* ReadyResource.opened of the PearDrive (and its IndexManager)
    closeTask,      \* where PearDrive.close() / _close is: "idle" before any call
    teardown,       \* the components torn down so far, in order
    nRestarts,      \* nodes constructed from a previous node's save data so far
    networkKey,     \* PearDrive._networkKey
    relay,          \* _indexOpts.relay (one object shared by PearDrive and IndexManager)
    relayer,        \* IndexManager #relayer: "none", "armed" or "fired" (a stale handle)
    relayTask,      \* the #relay invocation; #relayRunning is relayTask # "idle"
    queued,         \* IndexManager #queuedDownloads
    saveEmits,      \* payloads of the SAVE_DATA_UPDATE events of the last step
    rpcConnections, \* PearDrive._rpcConnections: peers with an RPC channel
    links,          \* peers whose swarm connection is up
    handshake,      \* the _onConnection invocation of each peer
    nConnects,      \* connections made so far
    listening,      \* peers whose bee core has an "append" listener of addBee
    hooks,          \* _customMessageHooks: the own properties, type -> handler
    onceHooks,      \* _onceCustomMessageHooks: the own properties
    msgs,           \* the RPC requests received so far and their handling
    nMsgs,          \* RPC requests received so far
    sent,           \* the last sendMessage call of the user
    autoPoll,       \* the run of #pollAndSync(true) of the automatic polling
    poller,         \* #poller: "none", a pending timer, or the id of a fired one
    pollOpt,        \* _indexOpts.poll
    running,        \* _running
    nPolls,         \* automatic poll runs started so far
    pipe,           \* the streams, promise and watchdog of _executeDownloadBlob
    relayLoop       \* the relay flag, #relayer, #relayRunning; passes and timers

diffVars == <<log, nAppends, remoteIndexes, peerUpdates, walkers, peerEvents,
              initialUpdate>>

lfiVars == <<fs, nWrites, bee, cache, debounceTimers, watch, pollTask>>

xferVars == <<inProgress, uploads, downloads, peer, dl, closed>>

nodeVars == <<opened, closeTask, teardown, nRestarts, networkKey,
              relay, relayer, relayTask, queued, saveEmits, rpcConnections,
              links, handshake, nConnects, listening>>

connVars == <<rpcConnections, links, handshake, nConnects, listening>>

msgVars == <<hooks, onceHooks, msgs, nMsgs, sent>>

pollVars == <<autoPoll, poller, pollOpt, running, nPolls>>

vars == <<log, nAppends, remoteIndexes, peerUpdates, walkers, peerEvents,
          initialUpdate, fs, nWrites, bee, cache, debounceTimers, watch,
          pollTask, inProgress, uploads, downloads, peer, dl, closed, emits,
          opened, closeTask, teardown, nRestarts, networkKey, relay,
          relayer, relayTask, queued, saveEmits, rpcConnections,
          links, handshake, nConnects, listening, hooks, onceHooks, msgs,
          nMsgs, sent, autoPoll, poller, pollOpt, running, nPolls, pipe, relayLoop>>

\* ------------------------------------------------------- the diff engine
\* bee.version, counted from the empty bee
Version(q) == Len(log[q]) - 1

\* bee.checkout(v)
Checkout(q, v) == log[q][v + 1]

IdleWalker == [peer |-> "q1", pc |-> "idle", prev |-> 0, cur |-> 0, idx |-> 0,
               emitted |-> <<>>]

RECURSIVE DiffFrom(_, _, _)
\* bee.createDiffStream(prevSnap): the keys whose entries differ, in key
\* order; left is the entry of the current bee, right that of the snapshot
DiffFrom(old, new, i) ==
    IF i > Len(PathSeq) THEN <<>>
    ELSE LET p == PathSeq[i]
         IN  IF old[p] = new[p] THEN DiffFrom(old, new, i + 1)
             ELSE <<[key |-> p, left |-> new[p], right |-> old[p]]>>
                      \o DiffFrom(old, new, i + 1)

DiffEntries(q, prev, cur) == DiffFrom(Checkout(q, prev), Checkout(q, cur), 1)

\* #onPeerUpdate, lines 976-987
UpdateType(curVal, prevVal) ==
    IF curVal # NoRec /\ prevVal # NoRec THEN "changed"
    ELSE IF curVal # NoRec /\ prevVal = NoRec THEN "added"
    ELSE IF curVal = NoRec /\ prevVal # NoRec THEN "removed"
    ELSE "none"

AddedEvent(p, curVal) ==
    [type |-> "added", path |-> p, hash |-> curVal.hash, prevHash |-> 0]

ChangedEvent(p, curVal, prevVal) ==
    [type |-> "changed", path |-> p, hash |-> curVal.hash,
     prevHash |-> prevVal.hash]

RemovedEvent(p) == [type |-> "removed", path |-> p, hash |-> 0, prevHash |-> 0]

\* what one iteration of the for-await loop emits for a diff entry
EntryEvents(entry) ==
    LET curVal == entry.left
        prevVal == entry.right
        t == UpdateType(curVal, prevVal)
    IN  IF t = "added" THEN <<AddedEvent(entry.key, curVal)>>
        ELSE IF t = "changed" /\ curVal.hash # prevVal.hash
             THEN <<ChangedEvent(entry.key, curVal, prevVal)>>
        ELSE IF t = "removed" THEN <<RemovedEvent(entry.key)>>
        ELSE <<>>

\* whether the iteration leaves #onPeerUpdate at once (the two "return"s of
\* the loop body, lines 992 and 1015)
EntryReturns(entry) ==
    LET t == UpdateType(entry.left, entry.right)
    IN  \/ t = "none"
        \/ t = "changed" /\ entry.left.hash = entry.right.hash

\* A peer's LocalFileIndex wrote its bee (bee.put / bee.del) and the block
\* was replicated: the core of the remote bee emits "append", and the
\* handler registered by addBee starts #onPeerUpdate, which runs up to its
\* first await (bee.core.update()).
PeerAppend(q, p, rec) ==
    /\ nAppends < MaxAppends
    /\ rec # Checkout(q, Version(q))[p]
    /\ log' = [log EXCEPT ![q] =
                  Append(@, [Checkout(q, Version(q)) EXCEPT ![p] = rec])]
    /\ nAppends' = nAppends + 1
    /\ walkers' = [walkers EXCEPT ![nAppends + 1] =
                      [IdleWalker EXCEPT !.peer = q,
                          !.pc = IF q \in listening /\ q \in remoteIndexes
                                 THEN "update" ELSE "done"]]
    /\ UNCHANGED <<remoteIndexes, peerUpdates, peerEvents, initialUpdate, lfiVars,
                   xferVars, emits, nodeVars, msgVars,
                   pollVars, pipe, relayLoop>>

\* the records a peer's index can hold next: a put stamps the record with
\* the file's modification time, which differs from every earlier one
PeerPut(q, p) ==
    \E h \in Hashes : PeerAppend(q, p, [hash |-> h, modified |-> nAppends + 1])

PeerDel(q, p) ==
    /\ Checkout(q, Version(q))[p] # NoRec
    /\ PeerAppend(q, p, NoRec)

\* #onPeerUpdate after bee.core.update(): lines 952-962
OnPeerUpdateBegin(id) ==
    LET w == walkers[id]
        q == w.peer
        prevUpdate == IF peerUpdates[q] = -1 THEN 0 ELSE peerUpdates[q]
        curUpdate == Version(q)
    IN  /\ w.pc = "update"
        /\ walkers' = [walkers EXCEPT ![id] =
               IF curUpdate = prevUpdate
               THEN [w EXCEPT !.pc = "done"]
               ELSE [w EXCEPT !.pc = "walk", !.prev = prevUpdate,
                              !.cur = curUpdate, !.idx = 1]]
        /\ UNCHANGED <<log, nAppends, remoteIndexes, peerUpdates, peerEvents,
                       initialUpdate, lfiVars, xferVars, emits, nodeVars,
                       msgVars,
                   pollVars, pipe, relayLoop>>

\* no download is running: none was started yet, or the last one is over
DlResting == dl.pc \in {"idle", "returned", "threw"}

\* asDrivePath: a path is the sequence of its parts, "/" being one
AsDrivePath(str) == IF str[1] = "/" THEN str ELSE <<"/">> \o str

\* IsQueuedAdd with the key looked up as it is, not as a drive path
IsQueuedAddRawKey(entry) ==
    /\ UpdateType(entry.left, entry.right) = "added"
    /\ <<entry.key>> \in queued

\* lines 1005-1006: the entry is an addition of a queued path
IsQueuedAdd(entry) ==
    /\ UpdateType(entry.left, entry.right) = "added"
    /\ AsDrivePath(<<entry.key>>) \in queued

\* #handleQueuedDownload up to its first await: FILE_REQUEST is sent
QueuedDownload(q, p) ==
    [pc |-> "request", kind |-> "auto", peer |-> q, path |-> p,
     outcome |-> "none", started |-> FALSE, terminals |-> <<>>,
     errorEv |-> FALSE, resp |-> "none"]

\* one iteration of the for-await loop over the diff stream; a queued
\* download is followed when no other download of the node is running
OnPeerUpdateEntry(id) ==
    LET w == walkers[id]
        q == w.peer
        entries == DiffEntries(q, w.prev, w.cur)
    IN  /\ w.pc = "walk"
        /\ w.idx <= Len(entries)
        /\ LET entry == entries[w.idx]
               evs == EntryEvents(entry)
           IN  /\ peerEvents' = [peerEvents EXCEPT ![q][entry.key] = @ \o evs]
               /\ walkers' = [walkers EXCEPT ![id] =
                      [w EXCEPT !.emitted = @ \o evs,
                                !.idx = @ + 1,
                                !.pc = IF EntryReturns(entry) THEN "done"
                                       ELSE "walk"]]
               /\ IF IsQueuedAdd(entry)
                  THEN /\ DlResting
                       /\ queued' = queued \ {AsDrivePath(<<entry.key>>)}
                       /\ dl' = QueuedDownload(q, entry.key)
                  ELSE UNCHANGED <<queued, dl>>
        /\ UNCHANGED <<log, nAppends, remoteIndexes, peerUpdates, initialUpdate,
                       lfiVars, inProgress, uploads, downloads, peer, closed,
                       emits, opened, closeTask, teardown, nRestarts, networkKey,
                       relay, relayer, relayTask, saveEmits, connVars, msgVars,
                   pollVars, pipe, relayLoop>>

\* the diff stream has ended: advance the snapshot head (line 1035)
OnPeerUpdateEnd(id) ==
    LET w == walkers[id]
    IN  /\ w.pc = "walk"
        /\ w.idx > Len(DiffEntries(w.peer, w.prev, w.cur))
        /\ peerUpdates' = [peerUpdates EXCEPT ![w.peer] = w.cur]
        /\ walkers' = [walkers EXCEPT ![id] = [w EXCEPT !.pc = "done"]]
        /\ UNCHANGED <<log, nAppends, remoteIndexes, peerEvents, initialUpdate,
                       lfiVars, xferVars, emits, nodeVars, msgVars,
                   pollVars, pipe, relayLoop>>

\* ------------------------------------------------- the Local File Index
IdleWatch == [pc |-> "idle", stat |-> 0, cached |-> NoRec]

IdlePoll == [pc |-> "idle", stored |-> EmptyBee, current |-> EmptyBee]

\* an event of the node, or (PeerEvent) an event or an RPC response that
\* concerns one peer
Event(e, p) == [ev |-> e, path |-> p, peer |-> "-"]

PeerEvent(e, p, q) == [ev |-> e, path |-> p, peer |-> q]

\* stat.mtimeMs of a file written now: the writes to the watch folder are
\* ordered in time, the n-th gets time n
FreshStamp == nWrites + 1

\* #isBusy: the path has an upload or a download container
IsBusy(p) == p \in uploads \/ p \in downloads

\* the first path, in key order, of a non-empty set of paths
FirstPath(S) == PathSeq[CHOOSE i \in 1..Len(PathSeq) :
                    PathSeq[i] \in S /\ \A j \in 1..(i - 1) : PathSeq[j] \notin S]

\* fs.watch callback -> #debounceFileChange: (re)arm the timer of the path
Debounce(p) == IF closed THEN debounceTimers ELSE debounceTimers \cup {p}

\* the user writes a file of the watch folder (the same content again: only
\* its modification time changes)
WriteFile(p, c) ==
    /\ ~closed
    /\ nWrites < MaxWrites
    /\ fs' = [fs EXCEPT ![p] = [content |-> c, modified |-> FreshStamp]]
    /\ nWrites' = nWrites + 1
    /\ debounceTimers' = Debounce(p)
    /\ emits' = {}
    /\ UNCHANGED <<bee, cache, watch, pollTask, xferVars, diffVars, nodeVars,
                   msgVars,
                   pollVars, pipe, relayLoop>>

\* the user deletes a file of the watch folder
DeleteFile(p) ==
    /\ ~closed
    /\ nWrites < MaxWrites
    /\ fs[p] # NoFile
    /\ fs' = [fs EXCEPT ![p] = NoFile]
    /\ nWrites' = nWrites + 1
    /\ debounceTimers' = Debounce(p)
    /\ emits' = {}
    /\ UNCHANGED <<bee, cache, watch, pollTask, xferVars, diffVars, nodeVars,
                   msgVars,
                   pollVars, pipe, relayLoop>>

\* #scanDirectory: the metadata of every file that is not busy
ScanDirectory ==
    [p \in Paths |->
        IF fs[p] # NoFile /\ ~IsBusy(p)
        THEN [hash |-> HashFile(fs[p].content), modified |-> fs[p].modified]
        ELSE NoRec]

\* #pollAndSync, lines 276-285: read the stored records, scan the folder
PollScan ==
    /\ ~closed
    /\ pollTask.pc = "idle"
    /\ pollTask' = [pc |-> "scanned", stored |-> bee, current |-> ScanDirectory]
    /\ emits' = {Event("HASH", p) : p \in {x \in Paths : ScanDirectory[x] # NoRec}}
    /\ UNCHANGED <<fs, nWrites, bee, cache, debounceTimers, watch, xferVars,
                   diffVars, nodeVars, msgVars,
                   pollVars, pipe, relayLoop>>

\* the stored paths the scan did not see and that are not busy (line 288-293)
PollDeletions(t) ==
    {p \in Paths : t.stored[p] # NoRec /\ t.current[p] = NoRec /\ ~IsBusy(p)}

\* the scanned paths that are new or whose hash changed (line 303)
PollPuts(t) ==
    {p \in Paths : /\ t.current[p] # NoRec
                   /\ (t.stored[p] = NoRec \/ t.stored[p].hash # t.current[p].hash)}

\* The index after the two loops of #pollAndSync.  The statement after the
\* first bee.del / bee.put, this._emitEvent(C.EVENT.LOCAL, null), throws:
\* IndexManager constructs the LocalFileIndex without emitEvent.  The catch
\* of #pollAndSync ends the run, so a run writes one record at most.
PollResult(t) ==
    IF PollDeletions(t) # {}
    THEN [bee EXCEPT ![FirstPath(PollDeletions(t))] = NoRec]
    ELSE IF PollPuts(t) # {}
    THEN [bee EXCEPT ![FirstPath(PollPuts(t))] = t.current[FirstPath(PollPuts(t))]]
    ELSE bee

\* #pollAndSync, lines 287-327
PollWrite ==
    /\ pollTask.pc = "scanned"
    /\ bee' = IF closed THEN bee ELSE PollResult(pollTask)
    /\ pollTask' = IdlePoll
    /\ emits' = {}
    /\ UNCHANGED <<fs, nWrites, cache, debounceTimers, watch, xferVars, diffVars, nodeVars,
                   msgVars,
                   pollVars, pipe, relayLoop>>

\* a run of #pollAndSync that has been called and awaits the stored records
BegunPoll == [IdlePoll EXCEPT !.pc = "begun"]

\* startPolling, lines 186-194, where it does not return at once:
\* #pollAndSync(true) is called and runs up to its first await.  _polling
\* is tested at line 269 and never set, so the run starts whatever else runs.
StartPolling ==
    /\ ~closed
    /\ poller = "none" /\ ~running
    /\ nPolls < MaxPolls
    /\ running' = TRUE
    /\ autoPoll' = BegunPoll
    /\ nPolls' = nPolls + 1
    /\ emits' = {}
    /\ UNCHANGED <<poller, pollOpt, lfiVars, xferVars, diffVars, nodeVars, msgVars,
                   pipe, relayLoop>>

\* the timer set at line 318 fires: #pollAndSync(true); #poller keeps the
\* id of the fired timer
TimerFire ==
    /\ poller = "armed"
    /\ nPolls < MaxPolls
    /\ poller' = "fired"
    /\ autoPoll' = BegunPoll
    /\ nPolls' = nPolls + 1
    /\ emits' = {}
    /\ UNCHANGED <<pollOpt, running, lfiVars, xferVars, diffVars, nodeVars, msgVars,
                   pipe, relayLoop>>

\* lines 276-285 of the automatic run; after _close this.#bee is null, the
\* read throws and the catch ends the run
AutoScan ==
    /\ autoPoll.pc = "begun"
    /\ autoPoll' = IF closed THEN IdlePoll
                   ELSE [pc |-> "scanned", stored |-> bee, current |-> ScanDirectory]
    /\ emits' = IF closed THEN {}
                ELSE {Event("HASH", p) : p \in {x \in Paths : ScanDirectory[x] # NoRec}}
    /\ UNCHANGED <<poller, pollOpt, running, nPolls, lfiVars, xferVars, diffVars,
                   nodeVars, msgVars, pipe, relayLoop>>

\* whether the two loops of a run end without a write, and so without the
\* throwing statement that follows a write
WritesNothing(t) == PollDeletions(t) = {} /\ PollPuts(t) = {}

\* lines 287-327 of the automatic run: the loops, then the timer is set if
\* _indexOpts.poll holds (line 317); a run that wrote has left by the catch
AutoWrite ==
    /\ autoPoll.pc = "scanned"
    /\ bee' = IF closed THEN bee ELSE PollResult(autoPoll)
    /\ autoPoll' = IdlePoll
    /\ poller' = IF WritesNothing(autoPoll) /\ pollOpt THEN "armed" ELSE poller
    /\ emits' = {}
    /\ UNCHANGED <<pollOpt, running, nPolls, fs, nWrites, cache, debounceTimers,
                   watch, pollTask, xferVars, diffVars, nodeVars, msgVars, pipe, relayLoop>>

\* stopPolling, lines 197-204: nothing is done while #poller is null
StopPollingPoller == IF poller = "none" THEN poller ELSE "none"

StopPollingOpt == IF poller = "none" THEN pollOpt ELSE FALSE

StopPolling ==
    /\ poller # "none"
    /\ poller' = StopPollingPoller
    /\ pollOpt' = StopPollingOpt
    /\ emits' = {}
    /\ UNCHANGED <<autoPoll, running, nPolls, lfiVars, xferVars, diffVars, nodeVars,
                   msgVars, pipe, relayLoop>>

\* ------------------------------------------------ _executeDownloadBlob
MaxChunks == 2

\* _executeDownloadBlob has not been called.  pc is the promise of lines
\* 773-825; rs and ws are "open", "ended" (rs only), "failing" (destroyed,
\* its 'error' not yet emitted) or "closed", with the error each is
\* destroyed with; timer: a watchdog timeout is pending; got of total chunks
\* have arrived; fired: the watchdog has fired on a pending download whose
\* streams were both healthy
IdlePipe == [pc |-> "idle", rs |-> "none", ws |-> "none", rsErr |-> "-",
             wsErr |-> "-", timer |-> FALSE, got |-> 0, total |-> 0,
             reason |-> "-", fired |-> FALSE]

\* the handlers leave the timeout pending
KeepTimeout(t) == t

\* clearTimeout(inactivityTimer) of the handlers of ws 'error', rs 'error'
\* and ws 'close' (lines 777, 782, 807): no timeout is pending afterwards
ClearTimeout(t) == FALSE

\* reject(err) and resolve() act on a pending promise only
Settle(s, pc, reason) ==
    IF s.pc = "pending" THEN [s EXCEPT !.pc = pc, !.reason = reason] ELSE s

\* lines 741-775 and 825: the streams are created, the watchdog is started
\* and the blob piped into the file
PipeStart(n) ==
    /\ pipe.pc = "idle"
    /\ pipe' = [IdlePipe EXCEPT !.pc = "pending", !.rs = "open",
                                !.ws = "open", !.timer = TRUE, !.total = n]
    /\ emits' = {}
    /\ UNCHANGED <<diffVars, lfiVars, xferVars, nodeVars, msgVars, pollVars,
                   relayLoop>>

\* rs 'data' (lines 787-803): the bytes are counted and the watchdog is
\* reset, whatever the promise holds; a destroyed stream emits no data
Chunk ==
    /\ pipe.rs = "open"
    /\ pipe.got < pipe.total
    /\ pipe' = [pipe EXCEPT !.got = @ + 1, !.timer = TRUE]
    /\ emits' = {}
    /\ UNCHANGED <<diffVars, lfiVars, xferVars, nodeVars, msgVars, pollVars,
                   relayLoop>>

\* the blob's stream ends, with all its chunks or fewer
RsEnd ==
    /\ pipe.rs = "open"
    /\ pipe' = [pipe EXCEPT !.rs = "ended"]
    /\ emits' = {}
    /\ UNCHANGED <<diffVars, lfiVars, xferVars, nodeVars, msgVars, pollVars,
                   relayLoop>>

\* a stream fails on its own (the connection, the disk): it is destroyed
\* with that error
StreamFail(which) ==
    /\ IF which = "rs"
       THEN /\ pipe.rs = "open"
            /\ pipe' = [pipe EXCEPT !.rs = "failing", !.rsErr = "io"]
       ELSE /\ pipe.ws = "open"
            /\ pipe' = [pipe EXCEPT !.ws = "failing", !.wsErr = "io"]
    /\ emits' = {}
    /\ UNCHANGED <<diffVars, lfiVars, xferVars, nodeVars, msgVars, pollVars,
                   relayLoop>>

\* the watchdog's callback (lines 762-769): rs.destroy(error) and
\* ws.destroy(error); destroying a destroyed stream does nothing
WatchdogFire ==
    /\ pipe.timer
    /\ pipe' = [pipe EXCEPT
                  !.timer = FALSE,
                  !.rs = IF @ \in {"open", "ended"} THEN "failing" ELSE @,
                  !.rsErr = IF pipe.rs \in {"open", "ended"}
                            THEN "timeout" ELSE @,
                  !.ws = IF @ = "open" THEN "failing" ELSE @,
                  !.wsErr = IF pipe.ws = "open" THEN "timeout" ELSE @,
                  !.fired = @ \/ (/\ pipe.pc = "pending"
                                  /\ pipe.rs \in {"open", "ended"}
                                  /\ pipe.ws = "open")]
    /\ emits' = {}
    /\ UNCHANGED <<diffVars, lfiVars, xferVars, nodeVars, msgVars, pollVars,
                   relayLoop>>

\* rs 'error' (lines 781-784), then the pipe destroys the file's stream
\* with the same error
RsError ==
    /\ pipe.rs = "failing"
    /\ pipe' = [Settle(pipe, "rejected", pipe.rsErr) EXCEPT
                  !.timer = ClearTimeout(@),
                  !.rs = "closed",
                  !.ws = IF @ = "open" THEN "failing" ELSE @,
                  !.wsErr = IF pipe.ws = "open" THEN pipe.rsErr ELSE @]
    /\ emits' = {}
    /\ UNCHANGED <<diffVars, lfiVars, xferVars, nodeVars, msgVars, pollVars,
                   relayLoop>>

\* ws 'error' (lines 776-779) and ws 'close' behind it; the pipe destroys
\* the blob's stream with the same error
WsError ==
    /\ pipe.ws = "failing"
    /\ pipe' = [Settle(pipe, "rejected", pipe.wsErr) EXCEPT
                  !.timer = ClearTimeout(@),
                  !.ws = "closed",
                  !.rs = IF @ \in {"open", "ended"} THEN "failing" ELSE @,
                  !.rsErr = IF pipe.rs \in {"open", "ended"}
                            THEN pipe.wsErr ELSE @]
    /\ emits' = {}
    /\ UNCHANGED <<diffVars, lfiVars, xferVars, nodeVars, msgVars, pollVars,
                   relayLoop>>

\* ws 'close' after the blob's stream has ended (lines 806-822): resolved
\* with every byte, rejected as incomplete with fewer
WsClose ==
    /\ pipe.ws = "open"
    /\ pipe.rs = "ended"
    /\ pipe' = [(IF pipe.got = pipe.total
                 THEN Settle(pipe, "resolved", "-")
                 ELSE Settle(pipe, "rejected", "incomplete")) EXCEPT
                  !.timer = ClearTimeout(@),
                  !.ws = "closed",
                  !.rs = "closed"]
    /\ emits' = {}
    /\ UNCHANGED <<diffVars, lfiVars, xferVars, nodeVars, msgVars, pollVars,
                   relayLoop>>

\* ------------------------------------------------ the relay loop's schedule
\* IndexManager's relay flag (_indexOpts.relay), #relayer ("null", the handle
\* of a pending timer, or the stale handle of a fired one), #relayRunning,
\* the executions of #relay between line 896 and its finally block (passes),
\* the timers pending (wakes), and the calls and passes so far
IdleLoop == [relay |-> FALSE, relayer |-> "null", relayRunning |-> FALSE,
             passes |-> 0, wakes |-> 0, calls |-> 0, begun |-> 0]

MaxRelayCalls == 6
MaxPasses == 3

\* a pass runs whatever the flag says
RelayRunningNever(s) == FALSE

\* #relayRunning, as startRelay (line 161) and #relay (line 890) read it
RelayRunning(s) == s.relayRunning

\* #relay up to its first await (lines 889-901): nothing while a pass runs
\* or the flag is off, else the running flag is set and the pass begins
Relay(s) ==
    IF RelayRunning(s) \/ ~s.relay THEN s
    ELSE [s EXCEPT !.relayRunning = TRUE, !.passes = @ + 1, !.begun = @ + 1]

\* the timers pending other than the one #relayer names
OlderWakes(s) == s.wakes - (IF s.relayer = "pending" THEN 1 ELSE 0)

\* startRelay (lines 160-165), as _open calls it when relay is set
StartRelay ==
    /\ relayLoop.calls < MaxRelayCalls
    /\ relayLoop.begun < MaxPasses
    /\ LET s == [relayLoop EXCEPT !.calls = @ + 1]
       IN  relayLoop' = IF s.relayer # "null" \/ RelayRunning(s) THEN s
                        ELSE Relay(s)
    /\ emits' = {}
    /\ UNCHANGED <<diffVars, lfiVars, xferVars, nodeVars, msgVars, pollVars,
                   pipe>>

\* stopRelay (lines 168-179): the flag is cleared; with a handle in
\* #relayer, the timer it names is cleared and #relayer set to null
StopRelay ==
    /\ relayLoop.calls < MaxRelayCalls
    /\ relayLoop' =
         IF relayLoop.relayer = "null"
         THEN [relayLoop EXCEPT !.calls = @ + 1, !.relay = FALSE]
         ELSE [relayLoop EXCEPT !.calls = @ + 1, !.relay = FALSE,
                                !.wakes = OlderWakes(relayLoop),
                                !.relayer = "null"]
    /\ emits' = {}
    /\ UNCHANGED <<diffVars, lfiVars, xferVars, nodeVars, msgVars, pollVars,
                   pipe>>

\* activateRelay / deactivateRelay of PearDrive: the flag is set
RelayFlag(on) ==
    /\ relayLoop.calls < MaxRelayCalls
    /\ relayLoop' = [relayLoop EXCEPT !.calls = @ + 1, !.relay = on]
    /\ emits' = {}
    /\ UNCHANGED <<diffVars, lfiVars, xferVars, nodeVars, msgVars, pollVars,
                   pipe>>

\* a pending timer fires and calls #relay (lines 932-935); its handle stays
\* where it is
RelayTimer(latest) ==
    /\ relayLoop.begun < MaxPasses
    /\ IF latest THEN relayLoop.relayer = "pending"
       ELSE OlderWakes(relayLoop) > 0
    /\ relayLoop' = Relay([relayLoop EXCEPT
                              !.wakes = @ - 1,
                              !.relayer = IF latest THEN "stale" ELSE @])
    /\ emits' = {}
    /\ UNCHANGED <<diffVars, lfiVars, xferVars, nodeVars, msgVars, pollVars,
                   pipe>>

\* the finally block of #relay (lines 929-936): the running flag is
\* cleared and the next timer set, whatever the flag and #relayer hold
RelayFinally ==
    /\ relayLoop.passes > 0
    /\ relayLoop' = [relayLoop EXCEPT !.relayRunning = FALSE,
                                      !.passes = @ - 1,
                                      !.wakes = @ + 1,
                                      !.relayer = "pending"]
    /\ emits' = {}
    /\ UNCHANGED <<diffVars, lfiVars, xferVars, nodeVars, msgVars, pollVars,
                   pipe>>

\* what #handleFileChange / #updateFile decide before their first await
WatchDecision(p) ==
    IF watch[p].pc # "idle" THEN watch[p]
    ELSE IF fs[p] = NoFile
    THEN IF IsBusy(p) \/ cache[p] = NoRec THEN IdleWatch
         ELSE [IdleWatch EXCEPT !.pc = "del"]
    ELSE IF IsBusy(p) THEN IdleWatch
    ELSE IF cache[p] # NoRec /\ cache[p].modified = fs[p].modified THEN IdleWatch
    ELSE [pc |-> "hash", stat |-> fs[p].modified, cached |-> cache[p]]

\* the debounce timer of a path fires: #handleFileChange up to its first await
WatchBegin(p) ==
    /\ p \in debounceTimers
    /\ debounceTimers' = debounceTimers \ {p}
    /\ watch' = [watch EXCEPT ![p] = WatchDecision(p)]
    /\ emits' = {}
    /\ UNCHANGED <<fs, nWrites, bee, cache, pollTask, xferVars, diffVars, nodeVars,
                   msgVars,
                   pollVars, pipe, relayLoop>>

\* the cache updated whether or not the write succeeded
CacheAfterAnyWrite(p, rec, ok) == [cache EXCEPT ![p] = rec]

\* the cache after bee.put / bee.del of a record (NoRec: the deletion): the
\* statement that updates the cache follows the awaited write, which throws
\* when it fails (lines 523-524, 608-609)
CacheAfterWrite(p, rec, ok) == IF ok THEN [cache EXCEPT ![p] = rec] ELSE cache

\* the catch of a failed write (lines 535-536, 635-637): the error is logged
WriteFailed(p) == {Event("LOG_ERROR", p)}

\* #handleFileChange, lines 523-526: the file is gone; ok: bee.del succeeds
WatchDel(p, ok) ==
    /\ watch[p].pc = "del"
    /\ watch' = [watch EXCEPT ![p] = IdleWatch]
    /\ IF closed
       THEN UNCHANGED <<bee, cache>> /\ emits' = {}
       ELSE /\ bee' = IF ok THEN [bee EXCEPT ![p] = NoRec] ELSE bee
            /\ cache' = CacheAfterWrite(p, NoRec, ok)
            /\ emits' = IF ok THEN {Event("FILE_REMOVED", p)}
                        ELSE WriteFailed(p)
    /\ UNCHANGED <<fs, nWrites, debounceTimers, pollTask, xferVars, diffVars, nodeVars,
                   msgVars,
                   pollVars, pipe, relayLoop>>

\* the record #updateFile writes: the hash of the file as it is read now, the
\* modification time of the stat taken before hashing
UpdateMetadata(p) ==
    [hash |-> HashFile(fs[p].content), modified |-> watch[p].stat]

\* the FILE_* event #updateFile emits after the write (lines 612-631)
UpdateEvents(p) ==
    IF watch[p].cached = NoRec THEN {Event("FILE_ADDED", p)}
    ELSE IF UpdateMetadata(p).hash # watch[p].cached.hash
         THEN {Event("FILE_CHANGED", p)}
    ELSE {}

\* #updateFile, lines 574-634: hash, write the record, update the cache;
\* ok: bee.put succeeds
WatchPut(p, ok) ==
    /\ watch[p].pc = "hash"
    /\ watch' = [watch EXCEPT ![p] = IdleWatch]
    /\ IF closed \/ fs[p] = NoFile
       THEN UNCHANGED <<bee, cache>> /\ emits' = {}
       ELSE /\ bee' = IF ok THEN [bee EXCEPT ![p] = UpdateMetadata(p)] ELSE bee
            /\ cache' = CacheAfterWrite(p, UpdateMetadata(p), ok)
            /\ emits' = {Event("HASH", p)}
                          \cup (IF ok THEN UpdateEvents(p) ELSE WriteFailed(p))
    /\ UNCHANGED <<fs, nWrites, debounceTimers, pollTask, xferVars, diffVars, nodeVars,
                   msgVars,
                   pollVars, pipe, relayLoop>>

\* ---------------------------------------------------- the transfer table
NoEntries == [q \in Peers |-> "none"]

\* the path has a key in _inProgress with at least one entry
InTable(p) == inProgress[p] # NoEntries

TableEmpty == \A p \in Paths : ~InTable(p)

\* markTransfer: no entry is written when the peer already has one for the
\* path, whatever its direction
MarkTransfer(p, direction, q) ==
    IF inProgress[p][q] # "none" THEN inProgress
    ELSE [inProgress EXCEPT ![p][q] = direction]

\* markTransfer emits IN_PROGRESS_DOWNLOAD_STARTED for every entry it writes,
\* uploads included (line 537)
MarkEvents(p, q) ==
    IF inProgress[p][q] # "none" THEN {}
    ELSE {PeerEvent("DOWNLOAD_STARTED", p, q)}

\* unmarkTransfer, lines 561-580: the entry of the peer is deleted whatever
\* its direction
UnmarkTransfer(p, q) ==
    IF ~InTable(p) THEN inProgress ELSE [inProgress EXCEPT ![p][q] = "none"]

\* unmarkTransfer, lines 573-576
UnmarkEvents(p, direction, q) ==
    IF InTable(p) /\ direction = "download"
    THEN {PeerEvent("DOWNLOAD_COMPLETED", p, q)}
    ELSE {}

\* the same events, as the suffix they add to the terminal events of a download
UnmarkTerminals(p, direction, q) ==
    IF UnmarkEvents(p, direction, q) = {} THEN <<>> ELSE <<"DOWNLOAD_COMPLETED">>

\* unmarkTransfer, lines 579-587: the container of the given direction is
\* closed only when the path has no entry left, of either direction
ClosesContainer(p, q) == InTable(p) /\ UnmarkTransfer(p, q)[p] = NoEntries

\* ------------------------------------------- serving FILE_REQUEST / RELEASE
IdlePeer == [pc |-> "idle", path |-> PathSeq[1], hash |-> 0, blob |-> 0, got |-> 0]

\* _onFileRequest, line 882: peer r asks for path p; the transfer is marked
\* before createUploadBlob looks the path up
FileRequest(r, p) ==
    /\ ~closed
    /\ peer[r].pc = "idle"
    /\ inProgress' = MarkTransfer(p, "upload", r)
    /\ emits' = MarkEvents(p, r)
    /\ peer' = [peer EXCEPT ![r] = [IdlePeer EXCEPT !.pc = "reqMeta", !.path = p]]
    /\ UNCHANGED <<uploads, downloads, dl, closed, lfiVars, diffVars, nodeVars,
                   msgVars,
                   pollVars, pipe, relayLoop>>

\* what the catch of _onFileRequest does: ERROR event, error response
RequestFailed(r) ==
    {Event("ERROR", peer[r].path),
     PeerEvent("FILE_REQUEST_ERROR", peer[r].path, r)}

\* createUploadBlob, lines 360-364: getFileMetadata on the local index
FileRequestMeta(r) ==
    /\ peer[r].pc = "reqMeta"
    /\ IF closed \/ bee[peer[r].path] = NoRec
       THEN /\ peer' = [peer EXCEPT ![r] = IdlePeer]
            /\ emits' = RequestFailed(r)
       ELSE /\ peer' = [peer EXCEPT ![r].pc = "reqStream",
                                    ![r].hash = bee[peer[r].path].hash]
            /\ emits' = {}
    /\ UNCHANGED <<inProgress, uploads, downloads, dl, closed, lfiVars, diffVars, nodeVars,
                   msgVars,
                   pollVars, pipe, relayLoop>>

\* createUploadBlob, lines 366-411: the file is streamed into a blob; only
\* then is the container entered in _uploads
FileRequestStream(r) ==
    /\ peer[r].pc = "reqStream"
    /\ IF closed \/ fs[peer[r].path] = NoFile
       THEN /\ peer' = [peer EXCEPT ![r] = IdlePeer]
            /\ emits' = RequestFailed(r)
            /\ UNCHANGED uploads
       ELSE /\ peer' = [peer EXCEPT ![r].pc = "holding",
                                    ![r].blob = fs[peer[r].path].content]
            /\ uploads' = uploads \cup {peer[r].path}
            /\ emits' = {PeerEvent("FILE_REQUEST_SUCCESS", peer[r].path, r)}
    /\ UNCHANGED <<inProgress, downloads, dl, closed, lfiVars, diffVars, nodeVars,
                   msgVars,
                   pollVars, pipe, relayLoop>>

\* peer r runs handleDownload on the reference it got: it reads the blob
\* while the container is open, and its copy is complete or cut short
PeerDownload(r, ok) ==
    /\ peer[r].pc = "holding"
    /\ peer' = [peer EXCEPT ![r].pc = "downloaded",
                            ![r].got = IF ok /\ peer[r].path \in uploads
                                       THEN peer[r].blob ELSE Partial]
    /\ emits' = {}
    /\ UNCHANGED <<inProgress, uploads, downloads, dl, closed, lfiVars, diffVars, nodeVars,
                   msgVars,
                   pollVars, pipe, relayLoop>>

\* _onFileRelease: unmarkTransfer(path, "upload", peer), closeUploadBlob
\* when the path has no entry left, success response
FileRelease(r) ==
    /\ ~closed
    /\ peer[r].pc = "downloaded"
    /\ inProgress' = UnmarkTransfer(peer[r].path, r)
    /\ uploads' = IF ClosesContainer(peer[r].path, r)
                  THEN uploads \ {peer[r].path} ELSE uploads
    /\ peer' = [peer EXCEPT ![r] = IdlePeer]
    /\ emits' = UnmarkEvents(peer[r].path, "upload", r)
                  \cup {PeerEvent("FILE_RELEASE_SUCCESS", peer[r].path, r)}
    /\ UNCHANGED <<downloads, dl, closed, lfiVars, diffVars, nodeVars, msgVars,
                   pollVars, pipe, relayLoop>>

\* ------------------------------------------------------------ downloading
IdleDl == [pc |-> "idle", kind |-> "user", peer |-> "q1", path |-> PathSeq[1],
           outcome |-> "none", started |-> FALSE, terminals |-> <<>>,
           errorEv |-> FALSE, resp |-> "none"]

\* every peer taken to have a channel
HasChannelAlways(q) == TRUE

\* this._rpcConnections.get(peerId): the peer has a channel
HasChannel(q) == q \in rpcConnections

\* downloadFileFromPeer (kind "user"), or #handleQueuedDownload and
\* _relayDownload (kind "auto"): FILE_REQUEST is sent to peer q
DownloadStart(kind, q, p) ==
    /\ ~closed
    /\ DlResting
    /\ dl' = IF HasChannel(q)
             THEN [IdleDl EXCEPT !.pc = "request", !.kind = kind, !.peer = q,
                                 !.path = p]
             ELSE [IdleDl EXCEPT !.pc = IF kind = "user" THEN "threw"
                                        ELSE "returned",
                                 !.kind = kind, !.peer = q, !.path = p,
                                 !.errorEv = TRUE]
    /\ emits' = IF HasChannel(q) THEN {} ELSE {Event("ERROR", p)}
    /\ UNCHANGED <<inProgress, uploads, downloads, peer, closed, lfiVars,
                   diffVars, nodeVars, msgVars,
                   pollVars, pipe, relayLoop>>

\* The response of the peer.  "error": _sendFileRequest throws; the user call
\* rethrows it (no ERROR event on this path), the automatic download logs it.
\* "badRef": the user call throws, the automatic download returns.  "ref":
\* handleDownload marks the transfer (line 442).
DownloadResponse(resp) ==
    /\ dl.pc = "request"
    /\ IF resp = "ref"
       THEN /\ inProgress' = MarkTransfer(dl.path, "download", dl.peer)
            /\ emits' = MarkEvents(dl.path, dl.peer)
            /\ dl' = [dl EXCEPT !.pc = "create", !.resp = resp,
                                !.started = MarkEvents(dl.path, dl.peer) # {}]
       ELSE /\ dl' = [dl EXCEPT !.pc = IF dl.kind = "user" THEN "threw"
                                       ELSE "returned",
                                !.resp = resp]
            /\ emits' = {}
            /\ UNCHANGED inProgress
    /\ UNCHANGED <<uploads, downloads, peer, closed, lfiVars, diffVars, nodeVars,
                   msgVars,
                   pollVars, pipe, relayLoop>>

\* _createDownloadBlob: the container is entered in _downloads
DownloadCreate ==
    /\ dl.pc = "create"
    /\ downloads' = downloads \cup {dl.path}
    /\ dl' = [dl EXCEPT !.pc = "pipe"]
    /\ emits' = {}
    /\ UNCHANGED <<inProgress, uploads, peer, closed, lfiVars, diffVars, nodeVars,
                   msgVars,
                   pollVars, pipe, relayLoop>>

\* _executeDownloadBlob: the destination is opened for writing (and so
\* truncated) and the blob is piped into it; the pipe ends complete ("ok"),
\* by the inactivity timeout, or with a wrong byte count.  handleDownload
\* returns in every case (line 450); the bytes are not hashed.
DownloadPipe(out, c) ==
    /\ dl.pc = "pipe"
    /\ nWrites < MaxWrites
    /\ nWrites' = nWrites + 1
    /\ fs' = [fs EXCEPT ![dl.path] =
                 [content |-> IF out = "ok" THEN c ELSE Partial,
                  modified |-> FreshStamp]]
    /\ debounceTimers' = Debounce(dl.path)
    /\ dl' = [dl EXCEPT !.outcome = out,
                        !.pc = IF dl.kind = "user" THEN "release" ELSE "unmark"]
    /\ emits' = {}
    /\ UNCHANGED <<bee, cache, watch, pollTask, inProgress, uploads,
                   downloads, peer, closed, diffVars, nodeVars, msgVars,
                   pollVars, pipe, relayLoop>>

\* #handleQueuedDownload line 1066, _relayDownload line 873:
\* unmarkTransfer(path, "download", peer), closeDownloadBlob when the path
\* has no entry left
DownloadUnmark ==
    /\ dl.pc = "unmark"
    /\ inProgress' = UnmarkTransfer(dl.path, dl.peer)
    /\ downloads' = IF ClosesContainer(dl.path, dl.peer)
                    THEN downloads \ {dl.path} ELSE downloads
    /\ emits' = UnmarkEvents(dl.path, "download", dl.peer)
    /\ dl' = [dl EXCEPT !.pc = "release",
                        !.terminals = dl.terminals \o
                            UnmarkTerminals(dl.path, "download", dl.peer)]
    /\ UNCHANGED <<uploads, peer, closed, lfiVars, diffVars, nodeVars, msgVars,
                   pollVars, pipe, relayLoop>>

\* _sendFileRelease: the peer answers success; once the node is closed the
\* connection is gone and the call throws, with or without an ERROR event
\* (_sendInternalMessageToPeer, lines 1062-1089)
DownloadRelease(err) ==
    /\ dl.pc = "release"
    /\ closed \/ ~err
    /\ dl' = [dl EXCEPT !.pc = IF closed /\ dl.kind = "user" THEN "threw"
                               ELSE "returned",
                        !.errorEv = closed /\ err]
    /\ emits' = IF closed /\ err THEN {Event("ERROR", dl.path)} ELSE {}
    /\ UNCHANGED <<inProgress, uploads, downloads, peer, closed, lfiVars,
                   diffVars, nodeVars, msgVars,
                   pollVars, pipe, relayLoop>>

\* ------------------------------------------------------------------ close
\* PearDrive._close: IndexManager.close() closes the local index only
\* (timers, cache, bee), then the swarm is destroyed and the store closed.
\* Neither _inProgress nor the containers are touched.
Close ==
    /\ ~closed
    /\ closed' = TRUE
    /\ debounceTimers' = {}
    /\ cache' = EmptyBee
    /\ emits' = {}
    /\ poller' = StopPollingPoller
    /\ pollOpt' = StopPollingOpt
    /\ UNCHANGED <<fs, nWrites, bee, watch, pollTask, inProgress, uploads,
                   downloads, peer, dl, diffVars, nodeVars, msgVars,
                   autoPoll, running, nPolls, pipe, relayLoop>>

\* a node of PearDrive: its index options hold no "poll" (part_012, lines
\* 226-235), so _open does not start the automatic polling
PollInit ==
    /\ autoPoll = IdlePoll
    /\ poller = "none"
    /\ pollOpt = FALSE
    /\ running = FALSE
    /\ nPolls = 0

XferInit ==
    /\ fs = [p \in Paths |-> NoFile]
    /\ nWrites = 0
    /\ bee = EmptyBee
    /\ cache = EmptyBee
    /\ debounceTimers = {}
    /\ watch = [p \in Paths |-> IdleWatch]
    /\ pollTask = IdlePoll
    /\ inProgress = [p \in Paths |-> NoEntries]
    /\ uploads = {}
    /\ downloads = {}
    /\ peer = [r \in Peers |-> IdlePeer]
    /\ dl = IdleDl
    /\ closed = FALSE
    /\ emits = {}
    /\ PollInit
    /\ pipe = IdlePipe
    /\ relayLoop = IdleLoop

\* ------------------------------------------------- the node's life cycle
\* Keys and seeds are hex strings outside the node and buffers inside it.  A
\* hex string is the sequence of its digits, a buffer the sequence of its bytes.
\* strToBuffer: b4a.from(str, "hex"); an odd last digit is dropped
StrToBuffer(str) ==
    [i \in 1..(Len(str) \div 2) |-> str[2 * i - 1] * 16 + str[2 * i]]

\* bufferToStr: b4a.toString(buffer, "hex")
BufferToStr(buf) ==
    [i \in 1..(2 * Len(buf)) |->
        IF i % 2 = 1 THEN buf[(i + 1) \div 2] \div 16 ELSE buf[i \div 2] % 16]

\* the paths a user may pass to queueDownload
UserPaths == {<<PathSeq[1]>>, <<"/", PathSeq[1]>>}

\* the network keys a user may pass to joinNetwork, as hex strings
KeyStrs == {<<10, 11>>, <<12, 13>>}

\* the options the first node is constructed with
BootOpts ==
    [corestorePath |-> "store", watchPath |-> "watch",
     indexName |-> "local-file-index", seed |-> <<1, 2>>,
     logOpts |-> "log", networkKey |-> <<10, 11>>, pollInterval |-> "500"]

\* Array.prototype.keys() of an array of n elements: its indices 0 .. n-1
\* (each written, like a path, as the sequence of its parts)
ArrayKeys(n) == [i \in 1..n |-> <<<<"0">>, <<"1">>, <<"2">>>>[i]]

\* #buildUnfinishedDownloads: IndexManager has no inProgressDownloads
\* getter, so the first loop runs over {}; the second runs over
\* this.#im.queuedDownloads.keys(), the keys of an Array
BuildUnfinishedDownloads == ArrayKeys(Cardinality(queued))

\* #buildSaveData
SaveData ==
    [corestorePath |-> BootOpts.corestorePath,
     watchPath |-> BootOpts.watchPath,
     indexName |-> BootOpts.indexName,
     swarmOpts |-> [seed |-> BufferToStr(StrToBuffer(BootOpts.seed))],
     logOpts |-> BootOpts.logOpts,
     networkKey |-> BufferToStr(networkKey),
     relay |-> relay,
     indexOpts |-> [disablePolling |-> FALSE,
                    pollInterval |-> BootOpts.pollInterval, relay |-> relay],
     queuedDownloads |-> BuildUnfinishedDownloads]

\* #emitSaveDataUpdate: a no-op unless the node is opened
EmitSaveDataUpdate(isOpen, data) == IF isOpen THEN <<data>> ELSE <<>>

IdleClose == [pc |-> "idle", calls |-> 0]

IdleRelay == [pc |-> "idle", stored |-> EmptyBee, current |-> EmptyBee]

\* the variables of the local index and of the transfers, left alone
keptVars == <<fs, nWrites, bee, watch, pollTask, inProgress, uploads, downloads,
              peer, dl, emits, diffVars, connVars>>

\* ready(): PearDrive._open -> IndexManager._open -> LocalFileIndex._open
\* (the cache is loaded from the bee), then startRelay() if relay is set:
\* #relay runs at once, up to its first await
Open ==
    /\ ~opened
    /\ closeTask.pc = "idle"
    /\ opened' = TRUE
    /\ cache' = bee
    /\ closed' = FALSE
    /\ relayTask' = IF relay THEN [IdleRelay EXCEPT !.pc = "poll"] ELSE relayTask
    /\ saveEmits' = <<>>
    /\ UNCHANGED <<debounceTimers, closeTask, teardown, nRestarts, networkKey,
                   relay, relayer, queued, keptVars, msgVars,
                   pollVars, pipe, relayLoop>>

\* joinNetwork(networkKey)
JoinNetwork(k) ==
    /\ closeTask.pc = "idle"
    /\ networkKey' = StrToBuffer(k)
    /\ UNCHANGED <<cache, closed, debounceTimers, opened, closeTask, teardown,
                   nRestarts, relay, relayer, relayTask, queued, keptVars,
                   msgVars,
                   pollVars, pipe, relayLoop>>
    /\ saveEmits' = EmitSaveDataUpdate(opened, SaveData')

\* activateRelay / deactivateRelay: the flag is set, nothing else
SetRelay(on) ==
    /\ closeTask.pc = "idle"
    /\ relay' = on
    /\ UNCHANGED <<cache, closed, debounceTimers, opened, closeTask, teardown,
                   nRestarts, networkKey, relayer, relayTask, queued, keptVars,
                   msgVars,
                   pollVars, pipe, relayLoop>>
    /\ saveEmits' = EmitSaveDataUpdate(opened, SaveData')

\* IndexManager.queueDownload: throws unless opened; nothing is emitted
QueueDownload(p) ==
    /\ opened
    /\ AsDrivePath(p) \notin queued
    /\ queued' = queued \cup {AsDrivePath(p)}
    /\ saveEmits' = <<>>
    /\ UNCHANGED <<cache, closed, debounceTimers, opened, closeTask, teardown,
                   nRestarts, networkKey, relay, relayer, relayTask, keptVars,
                   msgVars,
                   pollVars, pipe, relayLoop>>

\* close(): the first call on an opened node starts _close, a later call
\* returns the promise of the first (ReadyResource.close)
CloseCall ==
    /\ opened \/ closeTask.pc # "idle"
    /\ closeTask.calls < MaxCloseCalls
    /\ closeTask' = [pc |-> IF closeTask.pc = "idle" THEN "im" ELSE closeTask.pc,
                     calls |-> closeTask.calls + 1]
    /\ opened' = (opened /\ closeTask.pc # "idle")
    /\ saveEmits' = <<>>
    /\ UNCHANGED <<cache, closed, debounceTimers, teardown, nRestarts, networkKey,
                   relay, relayer, relayTask, queued, keptVars, msgVars,
                   pollVars, pipe, relayLoop>>

\* _close, line 1215: await this.#im.close(), which closes the local index
CloseIM ==
    /\ closeTask.pc = "im"
    /\ closeTask' = [closeTask EXCEPT !.pc = "swarm"]
    /\ teardown' = Append(teardown, "im")
    /\ closed' = TRUE
    /\ cache' = EmptyBee
    /\ debounceTimers' = {}
    /\ saveEmits' = <<>>
    /\ poller' = StopPollingPoller
    /\ pollOpt' = StopPollingOpt
    /\ UNCHANGED <<opened, nRestarts, networkKey, relay, relayer, relayTask,
                   queued, keptVars, msgVars, autoPoll, running, nPolls, pipe, relayLoop>>

\* _close, lines 1216-1217: this._swarm.destroy(); this._store.close() is called
CloseSwarm ==
    /\ closeTask.pc = "swarm"
    /\ closeTask' = [closeTask EXCEPT !.pc = "store"]
    /\ teardown' = Append(teardown, "swarm")
    /\ saveEmits' = <<>>
    /\ UNCHANGED <<cache, closed, debounceTimers, opened, nRestarts, networkKey,
                   relay, relayer, relayTask, queued, keptVars, msgVars,
                   pollVars, pipe, relayLoop>>

\* _close, line 1217: this._store.close() is over
CloseStore ==
    /\ closeTask.pc = "store"
    /\ closeTask' = [closeTask EXCEPT !.pc = "closed"]
    /\ teardown' = Append(teardown, "store")
    /\ saveEmits' = <<>>
    /\ UNCHANGED <<cache, closed, debounceTimers, opened, nRestarts, networkKey,
                   relay, relayer, relayTask, queued, keptVars, msgVars,
                   pollVars, pipe, relayLoop>>

\* what the constructors make of the queuedDownloads of the save data:
\* PearDrive reads opts.unfinishedDownloads and passes it on under that
\* name, IndexManager reads opts.queuedDownloads; both default to []
ConstructQueue(saveData) == {}

\* new PearDrive(saveData), saveData being that of the closed node, once
\* the tasks of the closed node are over; the watch folder and the local
\* index are on disk and stay
Restart ==
    /\ closeTask.pc = "closed"
    /\ nRestarts < MaxRestarts
    /\ DlResting
    /\ relayTask.pc = "idle"
    /\ \A q \in Peers : handshake[q] \in {"none", "done"}
    /\ nRestarts' = nRestarts + 1
    /\ networkKey' = StrToBuffer(SaveData.networkKey)
    /\ relay' = SaveData.indexOpts.relay
    /\ queued' = ConstructQueue(SaveData)
    /\ closeTask' = IdleClose
    /\ teardown' = <<>>
    /\ relayer' = "none"
    /\ relayTask' = IdleRelay
    /\ saveEmits' = <<>>
    /\ remoteIndexes' = {}
    /\ peerUpdates' = [q \in Peers |-> -1]
    /\ rpcConnections' = {}
    /\ links' = {}
    /\ handshake' = [q \in Peers |-> "none"]
    /\ listening' = {}
    /\ inProgress' = [p \in Paths |-> NoEntries]
    /\ uploads' = {}
    /\ downloads' = {}
    /\ dl' = IdleDl
    /\ emits' = {}
    /\ UNCHANGED <<log, nAppends, walkers, peerEvents, initialUpdate, lfiVars,
                   peer, closed, opened, nConnects, msgVars,
                   pollVars, pipe, relayLoop>>

\* ------------------------------------------------------- connections
\* _onConnection up to its first await: the channel is entered (line 800)
\* and LOCAL_INDEX_KEY_REQUEST is sent
Connect(q) ==
    /\ opened
    /\ q \notin links
    /\ handshake[q] \in {"none", "done"}
    /\ nConnects < MaxConnects
    /\ nConnects' = nConnects + 1
    /\ links' = links \cup {q}
    /\ rpcConnections' = rpcConnections \cup {q}
    /\ handshake' = [handshake EXCEPT ![q] = "key"]
    /\ emits' = {}
    /\ UNCHANGED <<diffVars, lfiVars, xferVars, opened, closeTask, teardown,
                   nRestarts, networkKey, relay, relayer, relayTask, queued,
                   saveEmits, listening, msgVars,
                   pollVars, pipe, relayLoop>>

\* the answer to LOCAL_INDEX_KEY_REQUEST: a failure (the only outcome once
\* the channel is gone) emits ERROR and ends _onConnection, lines 817-821
KeyResponse(q, ok) ==
    /\ handshake[q] = "key"
    /\ ok => q \in rpcConnections
    /\ handshake' = [handshake EXCEPT ![q] = IF ok THEN "ready" ELSE "done"]
    /\ emits' = IF ok THEN {} ELSE {PeerEvent("ERROR", "-", q)}
    /\ UNCHANGED <<diffVars, lfiVars, xferVars, opened, closeTask, teardown,
                   nRestarts, networkKey, relay, relayer, relayTask, queued,
                   saveEmits, rpcConnections, links, nConnects, listening,
                   msgVars,
                   pollVars, pipe, relayLoop>>

\* bee.ready() is over and addBee runs up to its first await: line 193
AddBeeRegister(q) ==
    /\ handshake[q] = "ready"
    /\ remoteIndexes' = remoteIndexes \cup {q}
    /\ handshake' = [handshake EXCEPT ![q] = "update"]
    /\ emits' = {}
    /\ UNCHANGED <<log, nAppends, peerUpdates, walkers, peerEvents,
                   initialUpdate, lfiVars, xferVars, opened, closeTask, teardown,
                   nRestarts, networkKey, relay, relayer, relayTask, queued,
                   saveEmits, rpcConnections, links, nConnects, listening,
                   msgVars,
                   pollVars, pipe, relayLoop>>

\* addBee after bee.core.update(): lines 197-198
AddBeeBaseline(q) ==
    /\ handshake[q] = "update"
    /\ initialUpdate' = [initialUpdate EXCEPT ![q] = Version(q)]
    /\ peerUpdates' = [peerUpdates EXCEPT ![q] = Version(q)]
    /\ handshake' = [handshake EXCEPT ![q] = "stream"]
    /\ emits' = {}
    /\ UNCHANGED <<log, nAppends, remoteIndexes, walkers, peerEvents,
                   lfiVars, xferVars, opened, closeTask, teardown,
                   nRestarts, networkKey, relay, relayer, relayTask, queued,
                   saveEmits, rpcConnections, links, nConnects, listening,
                   msgVars,
                   pollVars, pipe, relayLoop>>

\* addBee after the read stream: the append listener is registered, addBee
\* returns and _onConnection emits PEER_CONNECTED (line 843)
AddBeeEnd(q) ==
    /\ handshake[q] = "stream"
    /\ handshake' = [handshake EXCEPT ![q] = "done"]
    /\ listening' = listening \cup {q}
    /\ emits' = {PeerEvent("PEER_CONNECTED", "-", q)}
    /\ UNCHANGED <<diffVars, lfiVars, xferVars, opened, closeTask, teardown,
                   nRestarts, networkKey, relay, relayer, relayTask, queued,
                   saveEmits, rpcConnections, links, nConnects, msgVars,
                   pollVars, pipe, relayLoop>>

\* rpc "close" -> _onDisconnect -> handlePeerDisconnected
Disconnect(q) ==
    /\ q \in links
    /\ links' = links \ {q}
    /\ rpcConnections' = rpcConnections \ {q}
    /\ remoteIndexes' = remoteIndexes \ {q}
    /\ peerUpdates' = [peerUpdates EXCEPT ![q] = -1]
    /\ emits' = {PeerEvent("PEER_DISCONNECTED", "-", q)}
    /\ UNCHANGED <<log, nAppends, walkers, peerEvents, initialUpdate, lfiVars,
                   xferVars, opened, closeTask, teardown, nRestarts, networkKey,
                   relay, relayer, relayTask, queued, saveEmits, handshake,
                   nConnects, listening, msgVars,
                   pollVars, pipe, relayLoop>>

\* ---------------------------------------------------------- relay mode
\* the timer set by the last pass fires and calls #relay, which returns at
\* once while relay is off (lines 890-893); the handle stays in #relayer
RelayWake ==
    /\ relayer = "armed"
    /\ relayer' = "fired"
    /\ relayTask' = IF relayTask.pc = "idle" /\ relay
                    THEN [IdleRelay EXCEPT !.pc = "poll"] ELSE relayTask
    /\ emits' = {}
    /\ UNCHANGED <<diffVars, lfiVars, xferVars, opened, closeTask, teardown,
                   nRestarts, networkKey, relay, queued, saveEmits, connVars,
                   msgVars,
                   pollVars, pipe, relayLoop>>

\* #relay, line 902: pollOnce reads the stored records and scans the
\* folder; on a closed index the pass fails and ends in its finally block
RelayScan ==
    /\ relayTask.pc = "poll"
    /\ IF closed
       THEN /\ relayTask' = IdleRelay
            /\ relayer' = "armed"
            /\ emits' = {}
       ELSE /\ relayTask' = [pc |-> "scanned", stored |-> bee,
                             current |-> ScanDirectory]
            /\ emits' = {Event("HASH", p) :
                            p \in {x \in Paths : ScanDirectory[x] # NoRec}}
            /\ UNCHANGED relayer
    /\ UNCHANGED <<diffVars, lfiVars, xferVars, opened, closeTask, teardown,
                   nRestarts, networkKey, relay, queued, saveEmits, connVars,
                   msgVars,
                   pollVars, pipe, relayLoop>>

\* the paths of peer q's index that the local index `local` does not hold
MissingFiles(q, local) ==
    {p \in Paths : Checkout(q, Version(q))[p] # NoRec /\ local[p] = NoRec}

\* #relay, lines 902-931: pollOnce writes the index, the local and the
\* remote keys are read, and the first missing file is requested from a
\* peer that holds it (_relayDownload up to its first await); with nothing
\* missing, or on a closed index, the pass ends and sets the next timer.
\* The relay flag is not read again.
RelaySync ==
    /\ relayTask.pc = "scanned"
    /\ LET local == IF closed THEN bee ELSE PollResult(relayTask)
           holders == {q \in remoteIndexes : MissingFiles(q, local) # {}}
       IN  /\ bee' = local
           /\ IF closed \/ holders = {}
              THEN /\ relayTask' = IdleRelay
                   /\ relayer' = "armed"
                   /\ UNCHANGED dl
              ELSE /\ DlResting
                   /\ \E first \in holders :
                        \E q \in {r \in holders :
                                    FirstPath(MissingFiles(first, local))
                                        \in MissingFiles(r, local)} :
                           dl' = QueuedDownload(q,
                                     FirstPath(MissingFiles(first, local)))
                   /\ relayTask' = [IdleRelay EXCEPT !.pc = "download"]
                   /\ UNCHANGED relayer
    /\ emits' = {}
    /\ UNCHANGED <<diffVars, fs, nWrites, cache, debounceTimers, watch, pollTask,
                   inProgress, uploads, downloads, peer, closed, opened,
                   closeTask, teardown, nRestarts, networkKey, relay, queued,
                   saveEmits, connVars, msgVars,
                   pollVars, pipe, relayLoop>>

\* #relay, lines 928-936: _relayDownload is over; the finally block sets
\* the timer of the next pass
RelayEnd ==
    /\ relayTask.pc = "download"
    /\ dl.pc \in {"returned", "threw"}
    /\ relayTask' = IdleRelay
    /\ relayer' = "armed"
    /\ emits' = {}
    /\ UNCHANGED <<diffVars, lfiVars, xferVars, opened, closeTask, teardown,
                   nRestarts, networkKey, relay, queued, saveEmits, connVars,
                   msgVars,
                   pollVars, pipe, relayLoop>>

\* ------------------------------------------------------------ messages
\* the message types of the peers and of the user; "constructor" is also
\* the name of a property every plain object inherits
Types == {"t", "constructor"}

\* obj[type] of a hook table, a plain object ({}, lines 160-162): the own
\* property, else the inherited one
Lookup(own, type) ==
    IF own[type] # "none" THEN own[type]
    ELSE IF type = "constructor" THEN "Object" ELSE "none"

NoWire == [body |-> "none", status |-> "-", data |-> "-"]

Envelope(status, data) == [body |-> "envelope", status |-> status, data |-> data]

\* safeResponse and the json encoding of the response: undefined itself
\* becomes null; a property whose value is undefined is left out
SafeResponse(raw) ==
    IF raw.body = "undefined" THEN [NoWire EXCEPT !.body = "null"]
    ELSE IF raw.data = "undefined" THEN [raw EXCEPT !.data = "absent"]
    ELSE raw

IdleMsg == [pc |-> "idle", method |-> "-", type |-> "-", cb |-> "none",
            result |-> "-", wire |-> NoWire, errorEv |-> FALSE]

\* a handler's exception answered as a success
HandlerThrewAsSuccess == Envelope("success", "text")

\* _onMessage after await cb(payload): the handler threw
HandlerThrew == Envelope("error", "text")

\* what _onMessage returns once the handler is over (lines 971-990, 1006-1025)
HandlerResponse(result) ==
    IF result = "throws" THEN HandlerThrew
    ELSE Envelope("success", result)

\* listen(name, cb) with h = "f", unlisten(name) with h = "none"
SetHook(t, h) ==
    /\ hooks[t] # h
    /\ hooks' = [hooks EXCEPT ![t] = h]
    /\ emits' = {}
    /\ UNCHANGED <<diffVars, lfiVars, xferVars, nodeVars, pollVars, pipe, relayLoop, onceHooks, msgs, nMsgs,
                   sent>>

\* listenOnce(name, cb) with h = "g", unlistenOnce(name) with h = "none"
SetOnceHook(t, h) ==
    /\ onceHooks[t] # h
    /\ onceHooks' = [onceHooks EXCEPT ![t] = h]
    /\ emits' = {}
    /\ UNCHANGED <<diffVars, lfiVars, xferVars, nodeVars, pollVars, pipe, relayLoop, hooks, msgs, nMsgs,
                   sent>>

\* _onMessage up to its first await.  raw is a message type (the payload
\* parses) or "malformed" (JSON.parse or the destructuring throws: the outer
\* catch emits ERROR and returns undefined).
ReceiveMessage(raw) ==
    LET once == IF raw \in Types THEN Lookup(onceHooks, raw) ELSE "none"
        cb == IF raw \in Types THEN Lookup(hooks, raw) ELSE "none"
        m == [IdleMsg EXCEPT !.method = "MESSAGE", !.type = raw]
    IN  /\ nMsgs < MaxMsgs
        /\ nMsgs' = nMsgs + 1
        /\ onceHooks' = IF raw \in Types /\ once # "none"
                        THEN [onceHooks EXCEPT ![raw] = "none"] ELSE onceHooks
        /\ msgs' = [msgs EXCEPT ![nMsgs + 1] =
               IF raw \notin Types
               THEN [m EXCEPT !.pc = "done", !.errorEv = TRUE,
                        !.wire = SafeResponse([NoWire EXCEPT !.body = "undefined"])]
               ELSE IF once # "none" THEN [m EXCEPT !.pc = "running", !.cb = once]
               ELSE IF cb = "none"
               THEN [m EXCEPT !.pc = "done", !.errorEv = TRUE,
                        !.wire = SafeResponse(Envelope("unknown_message_type", "text"))]
               ELSE [m EXCEPT !.pc = "running", !.cb = cb]]
        /\ emits' = IF msgs'[nMsgs + 1].errorEv
                    THEN {Event("ERROR", "-")} ELSE {}
        /\ UNCHANGED <<diffVars, lfiVars, xferVars, nodeVars, pollVars, pipe, relayLoop, hooks, sent>>

\* the handler is over: it returned a value, returned undefined, or threw
\* (Object, the inherited "constructor", returns a value)
HandlerReturn(id, result) ==
    /\ msgs[id].pc = "running"
    /\ msgs[id].cb = "Object" => result = "value"
    /\ msgs' = [msgs EXCEPT ![id] =
           [@ EXCEPT !.pc = "done", !.result = result,
                     !.errorEv = (result = "throws"),
                     !.wire = SafeResponse(HandlerResponse(result))]]
    /\ emits' = IF result = "throws" THEN {Event("ERROR", "-")} ELSE {}
    /\ UNCHANGED <<diffVars, lfiVars, xferVars, nodeVars, pollVars, pipe, relayLoop, hooks, onceHooks, nMsgs,
                   sent>>

\* _onLocalIndexKeyRequest, and _onFileRequest / _onFileRelease with a
\* payload that is no path: the validation throws inside the try
ReceiveInternal(method) ==
    /\ nMsgs < MaxMsgs
    /\ nMsgs' = nMsgs + 1
    /\ msgs' = [msgs EXCEPT ![nMsgs + 1] =
           [IdleMsg EXCEPT !.pc = "done", !.method = method,
               !.errorEv = (method # "LOCAL_INDEX_KEY_REQUEST"),
               !.wire = SafeResponse(IF method = "LOCAL_INDEX_KEY_REQUEST"
                                     THEN Envelope("success", "value")
                                     ELSE Envelope("error", "text"))]]
    /\ emits' = IF method # "LOCAL_INDEX_KEY_REQUEST"
                THEN {Event("ERROR", "-")} ELSE {}
    /\ UNCHANGED <<diffVars, lfiVars, xferVars, nodeVars, pollVars, pipe, relayLoop, hooks, onceHooks, sent>>

IdleSend == [n |-> 0, peer |-> "q1", outcome |-> "none", payload |-> "-",
             errorEv |-> FALSE]

\* sendMessage(peerId, type, payload): without a channel ERROR is emitted
\* and the call throws; else JSON.stringify({type, payload}) is sent, which
\* leaves an undefined payload out
SendMessage(q, payload) ==
    /\ sent.n < MaxSends
    /\ sent' = IF HasChannel(q)
               THEN [n |-> sent.n + 1, peer |-> q, outcome |-> "sent",
                     payload |-> IF payload = "undefined" THEN "absent"
                                 ELSE payload,
                     errorEv |-> FALSE]
               ELSE [n |-> sent.n + 1, peer |-> q, outcome |-> "noPeer",
                     payload |-> "-", errorEv |-> TRUE]
    /\ emits' = IF HasChannel(q) THEN {} ELSE {Event("ERROR", "-")}
    /\ UNCHANGED <<diffVars, lfiVars, xferVars, nodeVars, pollVars, pipe, relayLoop, hooks, onceHooks, msgs,
                   nMsgs>>

\* no handler is registered, no request was received, nothing was sent
MsgInit ==
    /\ hooks = [t \in Types |-> "none"]
    /\ onceHooks = [t \in Types |-> "none"]
    /\ msgs = [id \in 1..MaxMsgs |-> IdleMsg]
    /\ nMsgs = 0
    /\ sent = IdleSend

\* the state of an opened node that nothing else was done to
NodeOpened ==
    /\ opened = TRUE
    /\ closeTask = IdleClose
    /\ teardown = <<>>
    /\ nRestarts = 0
    /\ networkKey = StrToBuffer(BootOpts.networkKey)
    /\ relay = FALSE
    /\ relayer = "none"
    /\ relayTask = IdleRelay
    /\ queued = {}
    /\ saveEmits = <<>>
    /\ rpcConnections = Peers
    /\ links = Peers
    /\ handshake = [q \in Peers |-> "done"]
    /\ nConnects = 0
    /\ listening = Peers
    /\ MsgInit

\* addBee has run for every peer: the bee is registered and the version it
\* had then is the baseline (lines 193-198).  A peer's index is empty at
\* that time, or already holds a file.
DiffInit ==
    /\ \E c \in Contents :
          log \in {[q \in Peers |-> <<EmptyBee>>],
                   [q \in Peers |-> <<EmptyBee,
                       [EmptyBee EXCEPT ![PathSeq[1]] =
                           [hash |-> HashFile(c), modified |-> 0]]>>]}
    /\ nAppends = 0
    /\ remoteIndexes = Peers
    /\ initialUpdate = [q \in Peers |-> Len(log[q]) - 1]
    /\ peerUpdates = initialUpdate
    /\ walkers = [id \in 1..MaxAppends |-> IdleWalker]
    /\ peerEvents = [q \in Peers |-> [p \in Paths |-> <<>>]]

DiffNext ==
    \/ \E q \in LogPeers, p \in Paths : PeerPut(q, p)
    \/ \E q \in LogPeers, p \in Paths : PeerDel(q, p)
    \/ \E id \in DOMAIN walkers : OnPeerUpdateBegin(id)
    \/ \E id \in DOMAIN walkers : OnPeerUpdateEntry(id)
    \/ \E id \in DOMAIN walkers : OnPeerUpdateEnd(id)

\* the diff engine on its own: peers append, the node walks; the node's
\* watch folder and transfers stay as they are at start
InitDiff == DiffInit /\ XferInit /\ NodeOpened

SpecDiff == InitDiff /\ [][DiffNext]_vars

\* the node is open, its watch folder and index are empty, no peer has
\* appended to its index yet
Init ==
    /\ DiffInit
    /\ log = [q \in Peers |-> <<EmptyBee>>]
    /\ XferInit
    /\ NodeOpened

Next ==
    \/ \E p \in XferPaths, c \in Contents : WriteFile(p, c)
    \/ \E p \in XferPaths : DeleteFile(p)
    \/ PollScan
    \/ PollWrite
    \/ \E p \in Paths : WatchBegin(p)
    \/ \E p \in Paths, ok \in BOOLEAN : WatchDel(p, ok)
    \/ \E p \in Paths, ok \in BOOLEAN : WatchPut(p, ok)
    \/ \E r \in Requesters, p \in XferPaths : FileRequest(r, p)
    \/ \E r \in Peers : FileRequestMeta(r)
    \/ \E r \in Peers : FileRequestStream(r)
    \/ \E r \in Peers, ok \in BOOLEAN : PeerDownload(r, ok)
    \/ \E r \in Peers : FileRelease(r)
    \/ \E kind \in {"user", "auto"}, q \in Sources, p \in XferPaths :
          DownloadStart(kind, q, p)
    \/ \E resp \in {"error", "badRef", "ref"} : DownloadResponse(resp)
    \/ DownloadCreate
    \/ \E out \in {"ok", "timeout", "incomplete"}, c \in Contents :
          DownloadPipe(out, c)
    \/ DownloadUnmark
    \/ \E err \in BOOLEAN : DownloadRelease(err)
    \/ Close

Spec == Init /\ [][Next]_vars

\* ---------------------------------------------------- claims: diff engine
\* The event that the difference between two versions of one key calls for
\* (spec 4.E, "Diff engine"): none when the key is unchanged or only its
\* size/modified fields differ.
TruthEvents(p, old, new) ==
    IF old = NoRec /\ new # NoRec THEN <<AddedEvent(p, new)>>
    ELSE IF old # NoRec /\ new = NoRec THEN <<RemovedEvent(p)>>
    ELSE IF old # NoRec /\ new # NoRec /\ old.hash # new.hash
         THEN <<ChangedEvent(p, new, old)>>
    ELSE <<>>

RECURSIVE Explains(_, _, _, _)
\* evs is a prefix of the events obtained by diffing, for key p, some
\* increasing chain of versions of q's log that starts at version from
Explains(q, p, evs, from) ==
    \/ evs = <<>>
    \/ \E v \in (from + 1)..Version(q) :
          LET e == TruthEvents(p, Checkout(q, from)[p], Checkout(q, v)[p])
          IN  IF e = <<>> THEN Explains(q, p, evs, v)
              ELSE Head(evs) = e[1] /\ Explains(q, p, Tail(evs), v)

\* C2: for every peer q and path p the PEER_FILE_* events emitted for (q, p)
\* are a prefix of the events obtained by diffing q's log versions in order,
\* from the version q was registered at (a walk may skip versions, it may
\* not report a difference twice, out of order, or one that never was).
C2_EventsPrefixOfLogDiffs ==
    \A q \in Peers, p \in Paths :
        Explains(q, p, peerEvents[q][p], initialUpdate[q])

RECURSIVE TruthWalk(_, _, _)
TruthWalk(old, new, i) ==
    IF i > Len(PathSeq) THEN <<>>
    ELSE TruthEvents(PathSeq[i], old[PathSeq[i]], new[PathSeq[i]])
             \o TruthWalk(old, new, i + 1)

\* C3: a diff walk that has ended handled every entry between last_version
\* and the head it diffed against: it emitted ADDED / REMOVED / CHANGED for
\* exactly the keys that call for one, and an entry with equal hashes did
\* not stop it.
C3_WalkHandlesEveryEntry ==
    \A id \in DOMAIN walkers :
        LET w == walkers[id]
        IN  (w.pc = "done" /\ w.cur # w.prev) =>
                w.emitted = TruthWalk(Checkout(w.peer, w.prev),
                                      Checkout(w.peer, w.cur), 1)

\* --------------------------------------------------- claims: transfers
\* C1: while a path has an entry in the transfer table, no poll and no watch
\* event hashes the file, rewrites its index record or deletes it, and
\* is_busy(path) is true exactly while the path is in the transfer table.
C1_BusyFileUntouched ==
    /\ [][\A p \in Paths :
            InTable(p) => (bee'[p] = bee[p] /\ Event("HASH", p) \notin emits')]_vars
    /\ [](\A p \in Paths : IsBusy(p) <=> InTable(p))

\* C4: in every reachable state the transfer table is empty if and only if
\* no upload or download container is open.
C4_TableEmptyIffNoContainer ==
    TableEmpty <=> (uploads = {} /\ downloads = {})

\* C5: the content a peer ends a successful download with is the content the
\* node's file had when the upload blob was created, and its hash is the
\* hash the node's index recorded for the path.
C5_DownloadMatchesRecordedHash ==
    \A r \in Peers :
        (peer[r].pc = "downloaded" /\ peer[r].got # Partial) =>
            /\ peer[r].got = peer[r].blob
            /\ HashFile(peer[r].got) = peer[r].hash

\* C6: downloadFileFromPeer returns normally only if the file was written
\* completely; when the transfer fails (error response, invalid reference,
\* inactivity timeout, wrong byte count) it throws and ERROR is emitted.
C6_DownloadFailureReported ==
    dl.kind = "user" =>
        /\ dl.pc = "returned" => dl.outcome = "ok"
        /\ (dl.pc = "threw" /\ dl.outcome # "ok") => dl.errorEv

\* the terminal event a finished download calls for
TerminalFor(outcome) ==
    IF outcome = "ok" THEN "DOWNLOAD_COMPLETED" ELSE "DOWNLOAD_FAILED"

\* C7: DOWNLOAD_STARTED is emitted in a step if and only if the step creates
\* a download entry in the transfer table, and a started download that is
\* over has emitted exactly one terminal event: DOWNLOAD_COMPLETED if it
\* succeeded, DOWNLOAD_FAILED otherwise.
C7_StartedAndTerminalEvents ==
    /\ [][\A p \in Paths, q \in Peers :
            PeerEvent("DOWNLOAD_STARTED", p, q) \in emits' <=>
                (inProgress[p][q] # "download" /\ inProgress'[p][q] = "download")]_vars
    /\ []((dl.pc \in {"returned", "threw"} /\ dl.started) =>
            dl.terminals = <<TerminalFor(dl.outcome)>>)

\* C8: when FILE_REQUEST names a path that is not in the local index, the
\* requester gets an error response and, once the request has failed, the
\* transfer table holds no upload entry of the requester for the path and
\* the path is not busy on its account.
C8_UnindexedRequestLeavesNoEntry ==
    [][\A r \in Peers :
          (/\ peer[r].pc = "reqMeta"
           /\ peer'[r].pc # "reqMeta"
           /\ ~closed
           /\ bee[peer[r].path] = NoRec) =>
              /\ PeerEvent("FILE_REQUEST_ERROR", peer[r].path, r) \in emits'
              /\ inProgress'[peer[r].path][r] = "none"
              /\ (\A q \in Peers : inProgress[peer[r].path][q] = "none" \/ q = r)
                    => ~InTable(peer[r].path)']_vars

\* C9: handling FILE_RELEASE(path) from peer r removes r's upload entry for
\* the path, leaves no upload container for the path once no upload of it
\* remains, and answers success.
C9_ReleaseRemovesEntryAndContainer ==
    [][\A r \in Peers :
          (peer[r].pc = "downloaded" /\ peer'[r].pc = "idle") =>
              /\ inProgress'[peer[r].path][r] = "none"
              /\ (\A q \in Peers : inProgress'[peer[r].path][q] # "upload")
                    => peer[r].path \notin uploads'
              /\ PeerEvent("FILE_RELEASE_SUCCESS", peer[r].path, r) \in emits']_vars

\* no handler of the node is between two of its steps
Settled ==
    /\ \A r \in Peers : peer[r].pc \in {"idle", "holding", "downloaded"}
    /\ DlResting
    /\ pollTask.pc = "idle"
    /\ \A p \in Paths : watch[p].pc = "idle"

\* C10: after close() the transfer table becomes empty and the containers
\* of the transfers that were in flight are removed.  Once the node is
\* closed and its handlers have run to their end, no step changes the table
\* any more, so the table must be empty by then.
C10_TableEmptyAfterClose ==
    (closed /\ Settled) => (TableEmpty /\ uploads = {} /\ downloads = {})


\* ------------------------------------------------ the node's life cycle
\* A node is constructed from its boot options, relay on or off, and not
\* opened yet.  The peer q2 holds one file already.
InitNode ==
    /\ XferInit
    /\ \E c \in Contents :
          log = [q \in Peers |->
                    IF q \in Sources
                    THEN <<EmptyBee, [EmptyBee EXCEPT ![PathSeq[1]] =
                                 [hash |-> HashFile(c), modified |-> 0]]>>
                    ELSE <<EmptyBee>>]
    /\ nAppends = 0
    /\ remoteIndexes = {}
    /\ initialUpdate = [q \in Peers |-> 0]
    /\ peerUpdates = [q \in Peers |-> -1]
    /\ walkers = [id \in 1..MaxAppends |-> IdleWalker]
    /\ peerEvents = [q \in Peers |-> [p \in Paths |-> <<>>]]
    /\ emits = {}
    /\ opened = FALSE
    /\ closeTask = IdleClose
    /\ teardown = <<>>
    /\ nRestarts = 0
    /\ networkKey = StrToBuffer(BootOpts.networkKey)
    /\ relay \in BOOLEAN
    /\ relayer = "none"
    /\ relayTask = IdleRelay
    /\ queued = {}
    /\ saveEmits = <<>>
    /\ rpcConnections = {}
    /\ links = {}
    /\ handshake = [q \in Peers |-> "none"]
    /\ nConnects = 0
    /\ listening = {}
    /\ MsgInit

\* connections made to the node while its life cycle is followed
NodeConnects == 1

NodeConnect(q) == nConnects < NodeConnects /\ Connect(q)

NextNode ==
    \/ Open
    \/ \E k \in KeyStrs : JoinNetwork(k)
    \/ \E on \in BOOLEAN : SetRelay(on)
    \/ \E u \in UserPaths : QueueDownload(u)
    \/ CloseCall
    \/ CloseIM
    \/ CloseSwarm
    \/ CloseStore
    \/ Restart
    \/ \E q \in Sources : NodeConnect(q)
    \/ \E q \in Sources, ok \in BOOLEAN : KeyResponse(q, ok)
    \/ \E q \in Sources : AddBeeRegister(q)
    \/ \E q \in Sources : AddBeeBaseline(q)
    \/ \E q \in Sources : AddBeeEnd(q)
    \/ \E q \in Sources : Disconnect(q)
    \/ RelayWake
    \/ RelayScan
    \/ RelaySync
    \/ RelayEnd
    \/ \E resp \in {"error", "badRef", "ref"} : DownloadResponse(resp)
    \/ DownloadCreate
    \/ \E out \in {"ok", "timeout", "incomplete"}, c \in Contents :
          DownloadPipe(out, c)
    \/ DownloadUnmark
    \/ \E err \in BOOLEAN : DownloadRelease(err)

SpecNode == InitNode /\ [][NextNode]_vars

\* C11: close() tears down the swarm, then the IndexManager, then the log
\* store, and a second close() has no further effect: at every moment the
\* components torn down so far are the first ones of that order, each once.
C11_CloseOrderAndIdempotent ==
    \E n \in 0..3 : teardown = SubSeq(<<"swarm", "im", "store">>, 1, n)

\* C12: whichever source writes the local index (a poll or a debounced watch
\* event), FILE_ADDED is emitted when a path that was not in the cache
\* becomes present, FILE_CHANGED only when a cached path's new hash differs
\* from the cached hash, and FILE_REMOVED when a cached path that is not busy
\* disappears.
C12_LocalFileEvents ==
    [][\A p \in Paths :
          /\ (bee'[p] # bee[p] /\ bee'[p] # NoRec /\ cache[p] = NoRec)
                => Event("FILE_ADDED", p) \in emits'
          /\ Event("FILE_CHANGED", p) \in emits'
                => (cache[p] # NoRec /\ bee'[p].hash # cache[p].hash)
          /\ (bee'[p] # bee[p] /\ bee'[p] = NoRec /\ cache[p] # NoRec
                /\ ~IsBusy(p))
                => Event("FILE_REMOVED", p) \in emits']_vars

\* ------------------------------------------------- queued downloads
\* the node is open and its peers are connected; paths are queued while no
\* download of the node is running
QueueWhenResting(u) == DlResting /\ QueueDownload(u)

NextQueue ==
    \/ \E q \in LogPeers, p \in XferPaths : PeerPut(q, p)
    \/ \E q \in LogPeers, p \in XferPaths : PeerDel(q, p)
    \/ \E id \in DOMAIN walkers : OnPeerUpdateBegin(id)
    \/ \E id \in DOMAIN walkers : OnPeerUpdateEntry(id)
    \/ \E id \in DOMAIN walkers : OnPeerUpdateEnd(id)
    \/ \E u \in UserPaths : QueueWhenResting(u)
    \/ \E resp \in {"error", "badRef", "ref"} : DownloadResponse(resp)
    \/ DownloadCreate
    \/ \E out \in {"ok", "timeout", "incomplete"}, c \in Contents :
          DownloadPipe(out, c)
    \/ DownloadUnmark
    \/ \E err \in BOOLEAN : DownloadRelease(err)

SpecQueue == InitDiff /\ [][NextQueue]_vars

\* this step emits PEER_FILE_ADDED for path p of peer q
FiresAdded(q, p) ==
    /\ Len(peerEvents'[q][p]) = Len(peerEvents[q][p]) + 1
    /\ peerEvents'[q][p][Len(peerEvents'[q][p])].type = "added"

\* the order of one cycle: request, handle_download (mark, container, pipe,
\* unmark), release; a failed or invalid request ends it
CycleSteps ==
    {<<"request", "create">>, <<"request", "returned">>, <<"create", "pipe">>,
     <<"pipe", "unmark">>, <<"unmark", "release">>, <<"release", "returned">>}

\* C13: when PEER_FILE_ADDED fires for a path of peer q that is queued, the
\* path leaves the queue in that step, whatever the outcome of the download,
\* and one request -> handle_download -> release cycle for the path is
\* started against q; no cycle starts otherwise, and a cycle keeps its peer
\* and path and runs its steps in order.
C13_QueuedAddStartsOneCycle ==
    [][/\ \A q \in LogPeers, p \in Paths :
             (FiresAdded(q, p) /\ AsDrivePath(<<p>>) \in queued)
                => /\ AsDrivePath(<<p>>) \notin queued'
                   /\ dl'.pc = "request" /\ dl'.peer = q /\ dl'.path = p
       /\ (dl' # dl /\ dl'.pc = "request")
             => \E q \in LogPeers, p \in Paths :
                   FiresAdded(q, p) /\ AsDrivePath(<<p>>) \in queued
       /\ (dl' # dl /\ ~DlResting)
             => /\ dl'.peer = dl.peer /\ dl'.path = dl.path
                /\ <<dl.pc, dl'.pc>> \in CycleSteps]_vars

\* a queued path was added by q1, its download timed out, the cycle is over
\* and the path is not queued any more
C13_Witness ==
    /\ dl.pc = "returned" /\ dl.kind = "auto" /\ dl.outcome = "timeout"
    /\ dl.peer \in LogPeers
    /\ \E i \in 1..Len(peerEvents[dl.peer][dl.path]) :
          peerEvents[dl.peer][dl.path][i].type = "added"
    /\ AsDrivePath(<<dl.path>>) \notin queued

\* C14: the queued set survives a restart: a queued path is in the save
\* data the node exposes, and the node constructed from that save data has
\* the path in its queued set.
C14_QueueSurvivesRestart ==
    [][nRestarts' = nRestarts + 1
          => \A d \in queued :
                /\ \E i \in 1..Len(SaveData.queuedDownloads) :
                      SaveData.queuedDownloads[i] = d
                /\ d \in queued']_vars

\* C15: whenever archive mode is enabled on an open node (by the boot
\* options or by activateRelay, also after a deactivateRelay), the scheduler
\* is running: a pass is under way or the timer of the next one is set; and
\* no pass starts a download while archive mode is disabled.
C15_RelaySchedulerFollowsFlag ==
    /\ []((opened /\ relay) => (relayer = "armed" \/ relayTask.pc # "idle"))
    /\ [][(relayTask'.pc = "download" /\ relayTask.pc # "download")
             => relay]_vars

\* C17: on an open node, a step that changes the save data emits exactly one
\* SAVE_DATA_UPDATE, whose payload is the save data after the step.
C17_SaveDataChangeEmitsOnce ==
    [][(opened /\ opened' /\ SaveData' # SaveData)
          => saveEmits' = <<SaveData'>>]_vars

\* C18: the node constructed from the save data S of a closed node exposes
\* S, and opening and closing it do not alter what it exposes.
C18_SaveDataRoundTrip ==
    [][(nRestarts' # nRestarts \/ opened' # opened \/ closeTask' # closeTask)
          => SaveData' = SaveData]_vars

\* ------------------------------------------------------ an archive node
\* the node was booted with relay on and has just been opened: the first
\* pass is at its pollOnce
InitRelay ==
    /\ InitNode
    /\ relay

OpenedRelay ==
    /\ Open
    /\ relay

NextRelay ==
    \/ OpenedRelay
    \/ \E q \in Sources : NodeConnect(q)
    \/ \E q \in Sources, ok \in BOOLEAN : KeyResponse(q, ok)
    \/ \E q \in Sources : AddBeeRegister(q)
    \/ \E q \in Sources : AddBeeBaseline(q)
    \/ \E q \in Sources : AddBeeEnd(q)
    \/ RelayWake
    \/ RelayScan
    \/ RelaySync
    \/ RelayEnd
    \/ \E resp \in {"error", "badRef", "ref"} : DownloadResponse(resp)
    \/ DownloadCreate
    \/ \E out \in {"ok", "timeout", "incomplete"}, c \in Contents :
          DownloadPipe(out, c)
    \/ DownloadUnmark
    \/ \E err \in BOOLEAN : DownloadRelease(err)

\* Timers fire and awaited calls return: every step of the handshake, of a
\* pass and of a download is taken in the end; a peer that is asked again
\* and again answers with a valid reference in the end, and a download that
\* is tried again and again runs to its end in the end.
FairRelay ==
    /\ WF_vars(OpenedRelay)
    /\ \A q \in Sources :
          /\ WF_vars(NodeConnect(q))
          /\ SF_vars(KeyResponse(q, TRUE))
          /\ WF_vars(AddBeeRegister(q))
          /\ WF_vars(AddBeeBaseline(q))
          /\ WF_vars(AddBeeEnd(q))
    /\ WF_vars(RelayWake)
    /\ WF_vars(RelayScan)
    /\ WF_vars(RelaySync)
    /\ WF_vars(RelayEnd)
    /\ WF_vars(\E resp \in {"error", "badRef", "ref"} : DownloadResponse(resp))
    /\ SF_vars(DownloadResponse("ref"))
    /\ WF_vars(DownloadCreate)
    /\ WF_vars(\E out \in {"ok", "timeout", "incomplete"}, c \in Contents :
                  DownloadPipe(out, c))
    /\ SF_vars(\E c \in Contents : DownloadPipe("ok", c))
    /\ WF_vars(DownloadUnmark)
    /\ WF_vars(\E err \in BOOLEAN : DownloadRelease(err))

SpecRelay == InitRelay /\ [][NextRelay]_vars /\ FairRelay

\* C16: with archive mode on and a peer connected, a path that the peer's
\* index holds and the local index does not is downloaded in the end and
\* is then in the local index with the hash the peer recorded.
C16_MissingFilesArriveWithPeerHash ==
    \A q \in Sources, p \in Paths :
        (/\ opened /\ relay /\ q \in remoteIndexes
         /\ Checkout(q, Version(q))[p] # NoRec
         /\ bee[p] = NoRec)
            ~> (bee[p] # NoRec /\ bee[p].hash = Checkout(q, Version(q))[p].hash)

\* C19: PEER_CONNECTED for peer q is emitted only after q's remote index was
\* registered, and at the moment it is emitted the node holds both a channel
\* and a remote index handle for q.
C19_ConnectedWithChannelAndHandle ==
    [][\A q \in Peers :
          (handshake' # handshake
           /\ PeerEvent("PEER_CONNECTED", "-", q) \in emits')
             => (q \in rpcConnections' /\ q \in remoteIndexes')]_vars

\* C20: from the close of a peer's connection until that peer connects
\* again, the node holds no channel, no remote index handle and no baseline
\* for it, also when the handshake was still in flight at the close.
C20_NothingHeldWhileDisconnected ==
    \A q \in Peers :
        q \notin links
            => (q \notin rpcConnections /\ q \notin remoteIndexes
                /\ peerUpdates[q] = -1)

\* ------------------------------------------------------------ messaging
\* an open node with a channel to q1 and none to q2
InitMsg ==
    /\ XferInit
    /\ log = [q \in Peers |-> <<EmptyBee>>]
    /\ nAppends = 0
    /\ remoteIndexes = LogPeers
    /\ initialUpdate = [q \in Peers |-> 0]
    /\ peerUpdates = [q \in Peers |-> IF q \in LogPeers THEN 0 ELSE -1]
    /\ walkers = [id \in 1..MaxAppends |-> IdleWalker]
    /\ peerEvents = [q \in Peers |-> [p \in Paths |-> <<>>]]
    /\ opened = TRUE
    /\ closeTask = IdleClose
    /\ teardown = <<>>
    /\ nRestarts = 0
    /\ networkKey = StrToBuffer(BootOpts.networkKey)
    /\ relay = FALSE
    /\ relayer = "none"
    /\ relayTask = IdleRelay
    /\ queued = {}
    /\ saveEmits = <<>>
    /\ rpcConnections = LogPeers
    /\ links = LogPeers
    /\ handshake = [q \in Peers |-> IF q \in LogPeers THEN "done" ELSE "none"]
    /\ nConnects = 0
    /\ listening = LogPeers
    /\ MsgInit

NextMsg ==
    \/ \E t \in Types, h \in {"f", "none"} : SetHook(t, h)
    \/ \E t \in Types, h \in {"g", "none"} : SetOnceHook(t, h)
    \/ \E raw \in Types \cup {"malformed"} : ReceiveMessage(raw)
    \/ \E id \in 1..MaxMsgs, result \in {"value", "undefined", "throws"} :
          HandlerReturn(id, result)
    \/ \E method \in {"LOCAL_INDEX_KEY_REQUEST", "FILE_REQUEST", "FILE_RELEASE"} :
          ReceiveInternal(method)

SpecMsg == InitMsg /\ [][NextMsg]_vars

\* the calls of the user that name a peer, and the download cycle
NextSend ==
    \/ \E q \in Peers, payload \in {"value", "undefined"} : SendMessage(q, payload)
    \/ \E kind \in {"user", "auto"}, q \in Peers, p \in XferPaths :
          DownloadStart(kind, q, p)
    \/ \E resp \in {"error", "badRef", "ref"} : DownloadResponse(resp)
    \/ DownloadCreate
    \/ \E out \in {"ok", "timeout", "incomplete"}, c \in Contents :
          DownloadPipe(out, c)
    \/ DownloadUnmark
    \/ \E err \in BOOLEAN : DownloadRelease(err)

SpecSend == InitMsg /\ [][NextSend]_vars

\* the requests that were answered
Answered == {id \in 1..MaxMsgs : msgs[id].pc = "done"}

\* C21: whatever the method and the payload, the responder answers with an
\* envelope {status, data} whose status is success, error or
\* unknown_message_type, and a failure is answered with status error and
\* emits ERROR.
C21_AnswersAreEnvelopes ==
    \A id \in Answered :
        /\ msgs[id].wire.body = "envelope"
        /\ msgs[id].wire.status \in {"success", "error", "unknown_message_type"}
        /\ (msgs[id].type = "malformed" \/ msgs[id].result = "throws")
              => (msgs[id].wire.status = "error" /\ msgs[id].errorEv)

\* C22: when a user handler (listen or listen_once) produces undefined, the
\* data field of the response that is sent is null.
C22_UndefinedIsSentAsNull ==
    \A id \in Answered :
        msgs[id].result = "undefined" => msgs[id].wire.data = "null"

\* a request whose handler threw, answered while the request before it
\* was answered too
ThrewAt(id) == id \in Answered /\ msgs[id].result = "throws"

\* C23: when a user MESSAGE handler throws, the response has status error,
\* ERROR is emitted on the receiver, and the receiver keeps serving: it
\* stays open and the registered handlers stay.
C23_ThrowingHandlerIsAnswered ==
    [][\A id \in 1..MaxMsgs :
          (msgs[id].pc = "running" /\ msgs'[id].pc = "done"
             /\ msgs'[id].result = "throws")
          => /\ msgs'[id].wire = Envelope("error", "text")
             /\ Event("ERROR", "-") \in emits'
             /\ hooks' = hooks /\ onceHooks' = onceHooks
             /\ ~closed']_vars

C23_Witness ==
    /\ ThrewAt(1)
    /\ msgs[2].pc = "done" /\ msgs[2].type = "t" /\ msgs[2].result = "value"
    /\ msgs[2].wire = Envelope("success", "value")

\* this step takes a MESSAGE request of type t
TakesMessage(t) ==
    /\ nMsgs' = nMsgs + 1
    /\ msgs'[nMsgs + 1].method = "MESSAGE"
    /\ msgs'[nMsgs + 1].type = t

\* the listen_once handler of type t has been invoked by an earlier request
OnceFired(t) == \E id \in 1..nMsgs : msgs[id].type = t /\ msgs[id].cb = "g"

\* the request taken by this step is answered unknown_message_type and no
\* handler is invoked for it
AnsweredUnknown ==
    /\ msgs'[nMsgs + 1].pc = "done"
    /\ msgs'[nMsgs + 1].cb = "none"
    /\ msgs'[nMsgs + 1].wire = Envelope("unknown_message_type", "text")

\* C24: with listen_once(t, g) registered and no listen(t), the first
\* message of type t invokes g and unregisters it; every later message of
\* type t, one that arrives while g runs included, is answered
\* unknown_message_type.
C24_ListenOnceFiresOnce ==
    [][\A t \in Types :
          (TakesMessage(t) /\ hooks[t] = "none")
          => /\ onceHooks[t] = "g"
                => (msgs'[nMsgs + 1].cb = "g" /\ onceHooks'[t] = "none")
             /\ (onceHooks[t] = "none" /\ OnceFired(t)) => AnsweredUnknown]_vars

\* C25: a MESSAGE whose type has no registered handler, never registered
\* or removed by unlisten, is answered unknown_message_type and invokes no
\* handler.
C25_NoHandlerIsUnknownType ==
    [][\A t \in Types :
          (TakesMessage(t) /\ hooks[t] = "none" /\ onceHooks[t] = "none")
          => AnsweredUnknown]_vars

\* C26: with both listen_once(t, g) and listen(t, f) registered, the first
\* message of type t is handled by g only and the next one by f.
C26_OnceBeforeListen ==
    [][\A t \in Types :
          (TakesMessage(t) /\ hooks[t] = "f")
          => /\ onceHooks[t] = "g"
                => (msgs'[nMsgs + 1].cb = "g" /\ onceHooks'[t] = "none"
                      /\ hooks' = hooks)
             /\ (onceHooks[t] = "none" /\ OnceFired(t))
                => msgs'[nMsgs + 1].cb = "f"]_vars

\* the transfer table and the containers are what they were
TablesKept ==
    /\ inProgress' = inProgress
    /\ downloads' = downloads
    /\ uploads' = uploads

\* no entry of the transfer table names a peer that has no channel
NoEntryWithoutChannel ==
    \A p \in Paths, q \in Peers \ rpcConnections : inProgress[p][q] = "none"

\* C27: send_message or download_file_from_peer that names a peer without
\* a channel fails to the caller, emits ERROR, and creates no transfer-table
\* entry and no container.
C27_NoPeerFailsWithoutEntry ==
    /\ []NoEntryWithoutChannel
    /\ [][ /\ (sent'.n = sent.n + 1 /\ sent'.peer \notin rpcConnections)
              => /\ sent'.outcome = "noPeer"
                 /\ sent'.errorEv
                 /\ Event("ERROR", "-") \in emits'
                 /\ TablesKept
           /\ (DlResting /\ dl' # dl /\ dl'.kind = "user"
                 /\ dl'.peer \notin rpcConnections)
              => /\ dl'.pc = "threw"
                 /\ dl'.errorEv
                 /\ ~dl'.started
                 /\ Event("ERROR", dl'.path) \in emits'
                 /\ TablesKept ]_vars

C27_Witness ==
    /\ sent.outcome = "noPeer" /\ sent.peer \notin rpcConnections
    /\ dl.pc = "threw" /\ dl.kind = "user" /\ dl.peer \notin rpcConnections
    /\ downloads = {}

\* the runs of #onPeerUpdate that are inside the diff loop for peer q
Walking(q) == {id \in DOMAIN walkers : walkers[id].peer = q /\ walkers[id].pc = "walk"}

\* C28: for each peer at most one diff walk is in progress at a time: the
\* walk for an append that overlaps a running walk starts after that walk
\* has completed.
C28_OneWalkPerPeer == \A q \in Peers : Cardinality(Walking(q)) <= 1

\* this step ends the diff walk of run id
WalkEnds(id) == walkers[id].pc = "walk" /\ walkers'[id].pc = "done"

\* C29: last_version of a peer changes only when a diff walk of that peer
\* ends, and every walk that ends leaves last_version at the head it
\* diffed against.
C29_LastVersionFollowsWalks ==
    [][ /\ \A q \in Peers :
              peerUpdates'[q] # peerUpdates[q]
              => \E id \in DOMAIN walkers :
                    walkers[id].peer = q /\ WalkEnds(id)
        /\ \A id \in DOMAIN walkers :
              WalkEnds(id) => peerUpdates'[walkers[id].peer] = walkers[id].cur ]_vars

\* C30: once download_file_from_peer has returned, the downloader holds no
\* transfer-table entry and no container for the path it downloaded.
C30_NothingHeldAfterDownloadReturns ==
    (dl.kind = "user" /\ dl.pc = "returned")
    => (inProgress[dl.path][dl.peer] = "none" /\ dl.path \notin downloads)

\* this step ends the download cycle that the node was running
CycleEnds == ~DlResting /\ dl'.pc \in {"returned", "threw"}

\* C31: a FILE_REQUEST that was answered with success is followed by a
\* FILE_RELEASE for the same path to the same peer: the cycle of such a
\* request ends only with the sending of FILE_RELEASE, on the user call and
\* on the automatic (archive, queued) downloads alike.
C31_SuccessIsFollowedByRelease ==
    [][(CycleEnds /\ dl'.resp \in {"ref", "badRef"})
          => (dl.pc = "release" /\ ~closed
                /\ dl'.peer = dl.peer /\ dl'.path = dl.path)]_vars

\* ------------------------------------------------- the local file index
\* a LocalFileIndex constructed with indexOpts.poll = true, in _open before
\* line 677: the bee and the cache are loaded, startPolling is about to be
\* called
InitPoll ==
    /\ DiffInit
    /\ log = [q \in Peers |-> <<EmptyBee>>]
    /\ fs = [p \in Paths |-> NoFile]
    /\ nWrites = 0
    /\ bee = EmptyBee
    /\ cache = EmptyBee
    /\ debounceTimers = {}
    /\ watch = [p \in Paths |-> IdleWatch]
    /\ pollTask = IdlePoll
    /\ inProgress = [p \in Paths |-> NoEntries]
    /\ uploads = {}
    /\ downloads = {}
    /\ peer = [r \in Peers |-> IdlePeer]
    /\ dl = IdleDl
    /\ closed = FALSE
    /\ emits = {}
    /\ autoPoll = IdlePoll
    /\ poller = "none"
    /\ pollOpt = TRUE
    /\ running = FALSE
    /\ nPolls = 0
    /\ pipe = IdlePipe
    /\ relayLoop = IdleLoop
    /\ NodeOpened

NextPoll ==
    \/ \E p \in XferPaths, c \in Contents : WriteFile(p, c)
    \/ \E p \in XferPaths : DeleteFile(p)
    \/ StartPolling
    \/ TimerFire
    \/ AutoScan
    \/ AutoWrite
    \/ StopPolling
    \/ PollScan
    \/ PollWrite
    \/ \E p \in Paths : WatchBegin(p)
    \/ \E p \in Paths, ok \in BOOLEAN : WatchDel(p, ok)
    \/ \E p \in Paths, ok \in BOOLEAN : WatchPut(p, ok)
    \/ Close

SpecPoll == InitPoll /\ [][NextPoll]_vars

\* the runs of #pollAndSync that are in progress
PollRuns == (IF pollTask.pc # "idle" THEN {"pollOnce"} ELSE {})
               \cup (IF autoPoll.pc # "idle" THEN {"automatic"} ELSE {})

\* C32: at most one poll-and-sync run is in progress at any time: a
\* poll_once() or a timer-driven poll invoked while a run is in progress
\* returns without scanning.
C32_OnePollRunAtATime == Cardinality(PollRuns) <= 1

\* the FILE_* events of the local file index that a step delivers for path p
FileEvents(p) ==
    {e \in emits' : e.path = p /\ e.ev \in {"FILE_ADDED", "FILE_CHANGED",
                                            "FILE_REMOVED"}}

\* this step ends the watch handler of path p
WatchEnds(p) == watch[p].pc # "idle" /\ watch'[p].pc = "idle"

\* C33: every FILE_ADDED, FILE_CHANGED or FILE_REMOVED that the local file
\* index delivers comes with the record or tombstone written to the log, and
\* the cache entry of a path is updated only with what a successful write
\* has put in the log.
C33_EventsFollowTheWrite ==
    [][\A p \in Paths :
          /\ (Event("FILE_ADDED", p) \in emits' \/ Event("FILE_CHANGED", p) \in emits')
             => (WatchEnds(p) /\ bee'[p] # NoRec /\ bee'[p] = cache'[p]
                   /\ bee'[p].modified = watch[p].stat)
          /\ Event("FILE_REMOVED", p) \in emits'
             => (WatchEnds(p) /\ bee'[p] = NoRec /\ cache'[p] = NoRec)
          /\ (WatchEnds(p) /\ cache'[p] # cache[p]) => cache'[p] = bee'[p] ]_vars

C33_Witness ==
    \E p \in Paths :
        /\ Event("FILE_CHANGED", p) \in emits
        /\ bee[p] # NoRec /\ cache[p] = bee[p]

\* no poll run and no watch handler is in progress
LfiQuiet ==
    /\ ~closed
    /\ PollRuns = {}
    /\ \A p \in Paths : watch[p].pc = "idle"

\* C34: whenever no poll run and no watch handler is in progress, the cache
\* holds exactly the records of the local log: the same paths, with the
\* same hashes.
C34_CacheMirrorsLog ==
    LfiQuiet
    => \A p \in Paths :
          /\ (cache[p] = NoRec) <=> (bee[p] = NoRec)
          /\ cache[p] # NoRec => cache[p].hash = bee[p].hash

\* C35: when a write to the local log fails, ERROR is emitted on the event
\* bus, no FILE_* event is emitted for that change, and the cache is left
\* as it was.
C35_FailedWriteEmitsError ==
    [][\A p \in Paths :
          (WatchEnds(p) /\ WriteFailed(p) \subseteq emits')
          => /\ Event("ERROR", p) \in emits'
             /\ FileEvents(p) = {}
             /\ cache' = cache ]_vars

\* this step is #updateFile putting the record of p in the log
WatchWrites(p) ==
    /\ watch[p].pc = "hash" /\ WatchEnds(p)
    /\ Event("HASH", p) \in emits'
    /\ ~(WriteFailed(p) \subseteq emits')

\* C36: a change of a file that both the poll path and the watcher path
\* notice produces one update of the log record: the watcher does not put
\* again the record that the log already holds for that change (the same
\* hash, the modification time of the same write).
C36_OneUpdatePerChange ==
    [][\A p \in Paths : WatchWrites(p) => bee'[p] # bee[p] ]_vars

\* C37: the poll timer is armed only while polling is enabled: once the
\* index has been closed, even with a run in progress at that moment, no
\* timer is pending and no further poll run starts.
C37_NoPollAfterClose ==
    /\ [](closed => poller # "armed")
    /\ [][nPolls' = nPolls + 1 => ~closed]_vars

\* this step starts an archive pass
PassStarts == relayTask.pc = "idle" /\ relayTask'.pc # "idle"

\* this step arms the timer of the next archive wake-up
WakeArmed == relayer # "armed" /\ relayer' = "armed"

\* C39: after close() no new archive pass starts and no further archive
\* wake-up is armed; a pass in flight when close() is called ends without
\* re-arming the timer.
C39_ArchiveStopsAtClose ==
    [][closed => (~PassStarts /\ ~WakeArmed)]_vars

\* --------------------------------------- the schedule of the relay loop
\* the calls of startRelay, stopRelay, activateRelay and deactivateRelay in
\* any order, between the timers and the ends of the passes
InitLoop ==
    /\ DiffInit
    /\ log = [q \in Peers |-> <<EmptyBee>>]
    /\ XferInit
    /\ NodeOpened

NextLoop ==
    \/ StartRelay
    \/ StopRelay
    \/ \E on \in BOOLEAN : RelayFlag(on)
    \/ \E latest \in BOOLEAN : RelayTimer(latest)
    \/ RelayFinally

SpecLoop == InitLoop /\ [][NextLoop]_vars

\* C38: at most one execution of #relay is between its start and its
\* finally block, and at most one timer of the loop is pending, whatever
\* the order of the calls, the timers and the ends of the passes.
C38_OnePassOneWake ==
    relayLoop.passes <= 1 /\ relayLoop.wakes <= 1

\* a second pass runs, started by startRelay after stopRelay had cleared
\* the timer of the first
C38_Witness ==
    /\ relayLoop.passes = 1
    /\ relayLoop.begun = 2
    /\ relayLoop.relayer = "null"
    /\ relayLoop.calls >= 3

\* ------------------------------------------- one _executeDownloadBlob
InitPipe ==
    /\ DiffInit
    /\ log = [q \in Peers |-> <<EmptyBee>>]
    /\ XferInit
    /\ NodeOpened

NextPipe ==
    \/ \E n \in 0..MaxChunks : PipeStart(n)
    \/ Chunk
    \/ RsEnd
    \/ \E which \in {"rs", "ws"} : StreamFail(which)
    \/ WatchdogFire
    \/ RsError
    \/ WsError
    \/ WsClose

\* a pending download always has something left to end it: its watchdog,
\* or the 'error' of a destroyed stream
FairPipe ==
    /\ WF_vars(WatchdogFire)
    /\ WF_vars(RsError)
    /\ WF_vars(WsError)

SpecPipe == InitPipe /\ [][NextPipe]_vars /\ FairPipe

PipeSettled == pipe.pc \in {"resolved", "rejected"}

\* C40: while the promise is pending the watchdog is armed or a destroyed
\* stream is about to report its error, every chunk arms the watchdog
\* again, a firing watchdog leaves both streams destroyed, a download whose
\* watchdog fired on healthy streams is rejected with the time-out error,
\* no watchdog is pending once the promise is settled, and a started
\* download settles.
C40_WatchdogEndsStalledDownload ==
    /\ [](pipe.pc = "pending" =>
            pipe.timer \/ pipe.rs = "failing" \/ pipe.ws = "failing")
    /\ [](pipe.fired => /\ pipe.rs \in {"failing", "closed"}
                        /\ pipe.ws \in {"failing", "closed"})
    /\ [](pipe.fired /\ PipeSettled =>
            pipe.pc = "rejected" /\ pipe.reason = "timeout")
    /\ [](PipeSettled => ~pipe.timer)
    /\ [][pipe'.got > pipe.got => pipe'.timer]_vars
    /\ (pipe.pc = "pending" ~> PipeSettled)

\* a download that got a chunk and then stalled was ended by its watchdog
C40_Witness ==
    /\ pipe.fired
    /\ pipe.got = 1
    /\ pipe.total = 2
    /\ pipe.pc = "rejected"
    /\ pipe.reason = "timeout"
    /\ ~pipe.timer

====
